---- MODULE Spec2Model ----
(***************************************************************************)
(* Transaction-to-graph pipeline of Blockcrawl                             *)
(*   pages/api/transactions.js : handler, time filter, processTransactions,*)
(*                               processTokenTransfer, processNativeTransfer,*)
(*                               addNodeIfNeeded, enhanceTokenMetadata     *)
(*   lib/ratelimit.js          : checkRateLimit                            *)
(*                                                                         *)
(* JavaScript values are modelled as follows.                              *)
(*   - an address is a string; the empty string stands for every falsy     *)
(*     address (undefined, null, '').                                      *)
(*   - a JavaScript Map is the sequence of its entries in insertion order. *)
(*   - a property that an object literal does not set reads "undefined".   *)
(***************************************************************************)
EXTENDS Integers, Sequences, FiniteSets, TLC

\* ------------------------------------------------------------------ bounds
MaxTxs       == 2   \* transactions in the filtered list
MaxTransfers == 2   \* transfer records in the whole filtered list
MaxFetched   == 3   \* transactions returned by the upstream API (time filter)
MaxClock     == 60  \* seconds of wall clock explored by the rate limiter
TickSeconds  == 30  \* granularity of the wall clock
MaxRequests  == 11  \* requests of one client inside 60 seconds
MaxThrows    == 1   \* ratelimit.limit calls that throw
MaxElapsed   == 120 \* seconds of one request that are followed
HandlerTick  == 15  \* seconds between two observations of the handler
MaxAnnotated == 2   \* annotations after which enhanceTokenMetadata adds none
MaxEnrichEdges == 2 \* edges handed to enhanceTokenMetadata
MaxAmount    == 9   \* largest amount of a transfer that is classified
MaxRuns      == 2   \* runs of enhanceTokenMetadata on the same edges
MaxBatches   == 3   \* batches of one batchResolveAddresses call
MaxResolutions == 2 \* getEntityInfo calls per address
MaxSegments  == 2   \* runs of characters of an address string
MaxIngested  == 1   \* transactions the upstream API returns to a request
MaxLife      == 129600 \* seconds over which the entity caches are followed
LifeTick     == 43200  \* seconds between two observations of the caches
MaxChain     == 12  \* transfers whose wallets are handed to batchResolveAddresses
MaxMints     == 7   \* distinct mints on the edges of one request
MaxAsked     == 2   \* time ranges whose fetch limits are compared
MaxWork      == 2   \* batches of one request, of addresses and of mints
MaxCallers   == 2   \* concurrent calls of getEntityInfo for one address

\* ------------------------------------------------------- program constants
InputNodeSize  == 60   \* size of the input node
WalletNodeSize == 40   \* size of a connected node
MsPerSecond    == 1000 \* tx.timestamp * 1000
\* Times of the filter are counted in units of 10^7, so that 1e10, the value
\* tx.timestamp is compared with, is 1000 units.
SecondsCutoff  == 1000
RateLimit      == 10   \* Ratelimit.slidingWindow(10, '60 s')
RateWindow     == 60   \* seconds
UpstreamTimeout    == 60  \* timeout: 60000 of the axios.get
ProcessingTimeout  == 45  \* setTimeout(..., 45000) of the race
UpstreamRetryAfter == 60  \* retryAfter: 60 of the catch block
SourceTimeout      == 5   \* timeout: 5000 of the entity lookups
TokenTimeout       == 10  \* timeout: 10000 of getTokenMetadata
MinAddressLength   == 32  \* {32,44} of solanaAddressRegex
MaxAddressLength   == 44
DefaultLimit       == 50  \* getLimitForTimeRange without a time range
SecondsPerDay      == 86400  \* 60 * 60 * 24
UnitSeconds        == 10000  \* a unit of time of the filter, in seconds
EntityTtl          == 86400  \* setex(`entity:${address}`, 86400, ...)
BatchSize          == 10     \* const batchSize = 10 of batchResolveAddresses
TokenBatchSize     == 5      \* const batchSize = 5 of enhanceTokenMetadata

VARIABLES
  \* --- processTransactions (pages/api/transactions.js)
  inputAddress,   \* cleanAddress, the queried wallet
  pc,             \* position of the request in processTransactions / handler
  index,          \* number of transactions the forEach has visited
  tx,             \* the transaction visited last
  nodes,          \* const nodes = new Map()
  edges,          \* const edges = []
  hasTransfers,   \* let hasTransfers
  used,           \* transfer records seen so far (bounds the input)
  result,         \* value returned by processTransactions
  response,       \* value returned by enhanceTokenMetadata (the response body)
  entityLookups,  \* addresses handed to getEntityInfo
  tokenLookups,   \* mints handed to getTokenMetadata / token-metadata calls
  cacheGets,      \* mints looked up in the token cache
  \* --- the time filter of the handler
  timeRange,             \* req.body.timeRange
  responseData,          \* response.data, as far as the filter has got
  filteredTransactions,  \* what the filter has kept
  \* --- rate limiting (lib/ratelimit.js and the handler's check)
  ratelimit,      \* whether the module created its Ratelimit instance
  windows,        \* the store: one window per identifier
  clock,          \* wall clock, in seconds
  storeFailed,    \* number of ratelimit.limit calls that have thrown
  seen,           \* per identifier: requests since its first request of the
                  \* current 60 seconds, and how many the handler let through
  last,           \* outcome of the latest rate-limit check of the handler
  \* --- the handler's awaits, its deadline and its catch block
  apiKey,         \* whether process.env.HELIUS_API_KEY is set
  stage,          \* where the handler is: start, fetching, processing,
                  \* enhancing, responded
  elapsed,        \* seconds since startTime
  raceStart,      \* value of elapsed when the Promise.race was created
  timer,          \* the setTimeout of the race: unset, armed, fired
  rounds,         \* rounds of lookups of processTransactions that have
                  \* settled: the batches of addresses, then the mints
  failures,       \* rounds in which a lookup has failed or timed out
  hits,           \* lookups whose source has found what was asked for
  annotated,      \* annotations the request has made so far
  caught,         \* the error the catch block received
  res,            \* the response sent
  \* --- the entity identifier (lib/entity-identifier)
  redisUrl,       \* whether process.env.UPSTASH_REDIS_REST_URL is set
  entityCache,    \* this.cache
  entityStore,    \* the entity:<address> entries of the external cache
  resolved,       \* per address, the getEntityInfo calls made so far: the
                  \* entity each returned and the calls it made
  \* --- enhanceTokenMetadata and the token cache
  enrichEdges,    \* transactionData.edges, as processTransactions returned them
  upstream,       \* what the token-metadata endpoint answers
  tokenCache,     \* the token:<mint> record of the cache
  runs,           \* the edges each run of enhanceTokenMetadata has returned
  \* --- the type of an edge
  classifyInput,  \* a transfer: its list, its amount and its UI amount
  classifyEdges,  \* the edges processTransactions makes of it
  \* --- the handler from the request to the upstream call
  req,            \* the request: method, size, body, address, timeRange
  step,           \* where the handler is: received, limited, fetching,
                  \* responded
  order,          \* the stages the handler has run, in the order it ran them
  limitWindow,    \* the store's window of the client of the request
  limitCalls,     \* checkRateLimit calls made for the request
  upstreamCalls,  \* the axios.get calls: the address and the limit of each
  reply,          \* the response of the request
  \* --- the entity caches over time and across processes
  today,            \* wall clock, in seconds
  cachedAt,       \* per address, when this.cache got its entry
  storedAt,       \* per address, when the external cache got its entry
  lastGet,        \* the redis.get of the latest getEntityInfo call: none,
                  \* hit, miss, failed
  lastSet,        \* its redis.setex: none, ok, failed
  \* --- batchResolveAddresses
  resolverFile,   \* the copy of the resolver that the handler has loaded
  chainLength,    \* the number of transactions of the filtered list
  systemAt,       \* the position of the System Program among the wallets
  failing,        \* the addresses whose lookups all fail
  phase,          \* collect, batch, returned
  filteredAddresses,  \* const filteredAddresses
  cursor,         \* the loop variable i
  inFlight,       \* the addresses whose getEntityInfo has not returned yet
  batchResults,   \* the addresses of the batch that resolved to an entity
  submitted,      \* the addresses handed to getEntityInfo, in order
  groups,         \* batches started so far
  results,        \* the keys of const results
  \* --- the token lookups of one request
  mintList,       \* Array.from(uniqueMints): the mints of the edges
  lookupFails,    \* the mints that getTokenMetadata finds nothing for
  cacheHits,      \* the mints that getCachedTokenMetadata has a record of
  tokenStage,     \* edges, allSettled, enhance, loop, batchCall, fallback,
                  \* done
  mintLookups,    \* the mints whose getTokenMetadata has not returned yet
  metadataFound,  \* the keys of const tokenMetadata
  tokenMints,     \* const tokenMints = Array.from(unknownTokens)
  tokenCursor,    \* the loop variable i of enhanceTokenMetadata
  tokenBatch,     \* const batch
  callMints,      \* mintAccounts of the token-metadata call in flight
  fallbackAt,     \* position of the for..of loop over the batch
  tokenCalls,     \* the token-metadata calls answered so far, in order
  resolvedMints,  \* the mints whose edges have got a symbol
  \* --- getLimitForTimeRange
  limitLog,       \* the time ranges asked for so far, with their limits
  \* --- the responses of one request
  route,          \* what the request is: too large, OPTIONS, GET, POST
  handlerAt,      \* where the handler is: headers, rateLimit, validate,
                  \* fetch, race, enhance, returned
  work,           \* processTransactions: idle, entities, mints, settled,
                  \* threw
  addressBatches, \* batches that the addresses of the request make
  entityLeft,     \* batches of batchResolveAddresses still to come
  mintBatches,    \* batches that the unknown mints of the request make
  tokenLeft,      \* batches of enhanceTokenMetadata still to come
  fallbackLeft,   \* mints of the failed batch still to be retried
  raceTimer,      \* the setTimeout of the race: unset, armed, fired
  sent,           \* the status codes sent with res.status(...), in order
  \* --- concurrent resolutions of one address on the singleton
  askedAddress,   \* the address the calls of getEntityInfo ask for
  sharedRedis,    \* whether UPSTASH_REDIS_REST_URL is set
  sharedCache,    \* what this.cache holds for the address
  cacheWrites,    \* the entities given to this.cache.set, in order
  callStep,       \* per call: start, redis, the source awaited, returned
  callResult      \* per call: what it returned

graphVars == <<inputAddress, pc, index, tx, nodes, edges, hasTransfers, used,
               result, response, entityLookups, tokenLookups, cacheGets>>

filterVars == <<timeRange, responseData, filteredTransactions>>

rateVars == <<ratelimit, windows, clock, storeFailed, seen, last>>

handlerVars == <<apiKey, stage, elapsed, raceStart, timer, rounds, failures,
                 hits, annotated, caught, res>>

entityVars == <<redisUrl, entityCache, entityStore, resolved>>

enrichVars == <<enrichEdges, upstream, tokenCache, runs>>

classifyVars == <<classifyInput, classifyEdges>>

intakeVars == <<req, step, order, limitWindow, limitCalls, upstreamCalls,
                reply>>

lifeVars == <<today, cachedAt, storedAt, lastGet, lastSet>>

batchVars == <<resolverFile, chainLength, systemAt, failing, phase,
               filteredAddresses, cursor, inFlight, batchResults, submitted,
               groups, results>>

tokenVars == <<mintList, lookupFails, cacheHits, tokenStage, mintLookups,
               metadataFound, tokenMints, tokenCursor, tokenBatch, callMints,
               fallbackAt, tokenCalls, resolvedMints>>

limitVars == <<limitLog>>

replyVars == <<route, handlerAt, work, addressBatches, entityLeft,
               mintBatches, tokenLeft, fallbackLeft, raceTimer, sent>>

shareVars == <<askedAddress, sharedRedis, sharedCache, cacheWrites, callStep,
               callResult>>

lateVars == <<limitVars, replyVars, shareVars>>

extraVars == <<intakeVars, lifeVars, batchVars, tokenVars, lateVars>>

moreVars == <<handlerVars, entityVars, enrichVars, classifyVars, extraVars>>

vars == <<graphVars, filterVars, rateVars, moreVars>>

\* ------------------------------------------------------------ input domain
NoAddress == ""           \* a falsy address
Undefined == "undefined"  \* a property that is not set
JsTrue    == "true"
JsFalse   == "false"

W == "W"   \* the queried wallet
A == "A"
B == "B"
C == "C"

Truthy(a) == a # NoAddress /\ a # Undefined

SeqsUpTo(S, n) == UNION {[1..k -> S] : k \in 0..n}

\* sender and receiver of a transfer: out of the queried wallet, into it,
\* between two other wallets, and without a sender
Endpoints    == {<<W, B>>, <<A, W>>, <<A, B>>, <<NoAddress, B>>}
TokenAmounts == {1, 2}
Mints        == {"M"}

\* transfer.uiTokenAmount?.uiAmount of a transfer without uiTokenAmount; it
\* is compared with 1 and or-ed with tokenAmount, as a uiAmount of 0 is
NoUiAmount == 0

TokenTransferSet ==
  { [fromUserAccount |-> e[1], toUserAccount |-> e[2], tokenAmount |-> n,
     uiAmount |-> NoUiAmount, mint |-> m, tokenSymbol |-> Undefined] :
      e \in Endpoints, n \in TokenAmounts, m \in Mints }

NativeTransferSet ==
  { [fromUserAccount |-> e[1], toUserAccount |-> e[2], amount |-> 5] :
      e \in Endpoints }

\* tx.accountData, as the list of its account.account values
AccountDataSet == {<< >>, <<W>>, <<W, C>>}

\* entries of the alternate tx.transfers key
AltTransferSet ==
  [type : {"token", "native"}, fromUserAccount : {W}, toUserAccount : {B},
   tokenAmount : {2}, uiAmount : {NoUiAmount}, amount : {5},
   mint : {Undefined}, tokenSymbol : {Undefined}]

NoTx == [tokenTransfers |-> << >>, nativeTransfers |-> << >>,
         transfers |-> << >>, accountData |-> << >>]

NumTransfers(t) ==
  Len(t.tokenTransfers) + Len(t.nativeTransfers) + Len(t.transfers)

\* the transactions that fit in a budget of n transfer records
TxSet(n) ==
  { [tokenTransfers |-> s[1], nativeTransfers |-> s[2], transfers |-> s[3],
     accountData |-> s[4]] :
      s \in { t \in SeqsUpTo(TokenTransferSet, n) \X SeqsUpTo(NativeTransferSet, n)
                    \X SeqsUpTo(AltTransferSet, n) \X AccountDataSet :
                Len(t[1]) + Len(t[2]) + Len(t[3]) <= n } }

\* --------------------------------------------------------------- the Map
MapHas(m, k) == \E i \in 1..Len(m) : m[i].id = k

\* Map.prototype.set: replaces the value of an existing key in place,
\* appends a new entry otherwise
MapSet(m, k, v) ==
  IF MapHas(m, k)
  THEN [i \in 1..Len(m) |-> IF m[i].id = k THEN v ELSE m[i]]
  ELSE Append(m, v)

InputNode(a)  == [id |-> a, type |-> "input",  size |-> InputNodeSize,
                  entity |-> Undefined]
WalletNode(a) == [id |-> a, type |-> "wallet", size |-> WalletNodeSize,
                  entity |-> Undefined]

\* addNodeIfNeeded with the membership test inverted: nothing is ever added
addNodeIfNeeded_hasInverted(address, ns, input) ==
  IF Truthy(address) /\ address # input /\ MapHas(ns, address)
  THEN MapSet(ns, address, WalletNode(address))
  ELSE ns

\* addNodeIfNeeded without its guards on the input address and on membership
addNodeIfNeeded_noGuard(address, ns, input) ==
  IF Truthy(address)
  THEN MapSet(ns, address, WalletNode(address))
  ELSE ns

\* addNodeIfNeeded(address, nodes, inputAddress)
addNodeIfNeeded(address, ns, input) ==
  IF Truthy(address) /\ address # input /\ ~MapHas(ns, address)
  THEN MapSet(ns, address, WalletNode(address))
  ELSE ns

\* getTransactionType that looks at tokenAmount alone
getTransactionType_rawOnly(transfer) ==
  IF transfer.tokenAmount = 1 THEN "NFT" ELSE "SPL_TOKEN"

\* getTransactionType(transfer)
getTransactionType(transfer) ==
  IF transfer.tokenAmount = 1 \/ transfer.uiAmount = 1
  THEN "NFT" ELSE "SPL_TOKEN"

\* the id without the transfer index
EdgeId_noTransferIndex(from, to, txIndex, transferIndex) ==
  from \o "-" \o to \o "-" \o ToString(txIndex)

\* `${fromAddress}-${toAddress}-${txIndex}-${transferIndex}`
EdgeId(from, to, txIndex, transferIndex) ==
  from \o "-" \o to \o "-" \o ToString(txIndex) \o "-" \o ToString(transferIndex)

\* tx.accountData?.some(account => account.account === inputAddress)
isInputInTransaction(t, input) ==
  \E i \in 1..Len(t.accountData) : t.accountData[i] = input

JsBool(b) == IF b THEN JsTrue ELSE JsFalse

\* processTokenTransfer: g is the pair [nodes, edges] it mutates
processTokenTransfer(transfer, t, txIndex, transferIndex, g, input) ==
  LET fromAddress == transfer.fromUserAccount
      toAddress   == transfer.toUserAccount
      isInputInvolved == fromAddress = input \/ toAddress = input
      inTx == isInputInTransaction(t, input)
  IN IF isInputInvolved \/ inTx
     THEN LET ns == addNodeIfNeeded(toAddress,
                      addNodeIfNeeded(fromAddress, g.nodes, input), input)
          IN IF Truthy(fromAddress) /\ Truthy(toAddress)
             THEN [nodes |-> ns,
                   edges |-> Append(g.edges,
                     [id |-> EdgeId(fromAddress, toAddress, txIndex, transferIndex),
                      source |-> fromAddress,
                      target |-> toAddress,
                      type |-> getTransactionType(transfer),
                      mint |-> transfer.mint,
                      tokenSymbol |-> IF Truthy(transfer.tokenSymbol)
                                      THEN transfer.tokenSymbol ELSE "Unknown",
                      isDirectTransfer |-> JsBool(isInputInvolved),
                      isRelatedTransfer |-> JsBool(inTx /\ ~isInputInvolved),
                      tokenMetadata |-> Undefined])]
             ELSE [nodes |-> ns, edges |-> g.edges]
     ELSE g

\* processNativeTransfer: the edge literal sets neither mint nor flags
processNativeTransfer(transfer, t, txIndex, transferIndex, g, input) ==
  LET fromAddress == transfer.fromUserAccount
      toAddress   == transfer.toUserAccount
  IN IF fromAddress = input \/ toAddress = input
     THEN LET ns == addNodeIfNeeded(toAddress,
                      addNodeIfNeeded(fromAddress, g.nodes, input), input)
          IN IF Truthy(fromAddress) /\ Truthy(toAddress)
             THEN [nodes |-> ns,
                   edges |-> Append(g.edges,
                     [id |-> EdgeId(fromAddress, toAddress, txIndex, transferIndex),
                      source |-> fromAddress,
                      target |-> toAddress,
                      type |-> "SOL",
                      mint |-> Undefined,
                      tokenSymbol |-> Undefined,
                      isDirectTransfer |-> Undefined,
                      isRelatedTransfer |-> Undefined,
                      tokenMetadata |-> Undefined])]
             ELSE [nodes |-> ns, edges |-> g.edges]
     ELSE g

\* tx.tokenTransfers.forEach((transfer, transferIndex) => processTokenTransfer(..))
RECURSIVE forEachToken(_, _, _, _, _, _)
forEachToken(ts, i, t, txIndex, g, input) ==
  IF i > Len(ts) THEN g
  ELSE forEachToken(ts, i + 1, t, txIndex,
         processTokenTransfer(ts[i], t, txIndex, i - 1, g, input), input)

\* tx.nativeTransfers.forEach((transfer, transferIndex) => processNativeTransfer(..))
RECURSIVE forEachNative(_, _, _, _, _, _)
forEachNative(ts, i, t, txIndex, g, input) ==
  IF i > Len(ts) THEN g
  ELSE forEachNative(ts, i + 1, t, txIndex,
         processNativeTransfer(ts[i], t, txIndex, i - 1, g, input), input)

\* tx.transfers.forEach((transfer, transferIndex) => ...): dispatch on the
\* entry's type / mint / amount
RECURSIVE forEachAlt(_, _, _, _, _, _)
forEachAlt(ts, i, t, txIndex, g, input) ==
  IF i > Len(ts) THEN g
  ELSE forEachAlt(ts, i + 1, t, txIndex,
         IF ts[i].type = "token" \/ Truthy(ts[i].mint)
         THEN processTokenTransfer(ts[i], t, txIndex, i - 1, g, input)
         ELSE IF ts[i].type = "native" \/ ts[i].amount # 0
         THEN processNativeTransfer(ts[i], t, txIndex, i - 1, g, input)
         ELSE g, input)

\* tx.accountData.forEach(account => addNodeIfNeeded(account.account, ..))
RECURSIVE forEachAccount(_, _, _, _)
forEachAccount(ad, i, ns, input) ==
  IF i > Len(ad) THEN ns
  ELSE forEachAccount(ad, i + 1,
         IF Truthy(ad[i]) /\ ad[i] # input
         THEN addNodeIfNeeded(ad[i], ns, input) ELSE ns, input)

hasTokenTransfers(t)  == Len(t.tokenTransfers) > 0
hasNativeTransfers(t) == Len(t.nativeTransfers) > 0

\* the transfer shapes of one transaction: token transfers, else native ones
processShapes(t, txIndex, g, input) ==
  IF hasTokenTransfers(t)
  THEN forEachToken(t.tokenTransfers, 1, t, txIndex, g, input)
  ELSE IF hasNativeTransfers(t)
  THEN forEachNative(t.nativeTransfers, 1, t, txIndex, g, input)
  ELSE forEachNative(t.nativeTransfers, 1, t, txIndex,
         forEachToken(t.tokenTransfers, 1, t, txIndex,
           forEachAlt(t.transfers, 1, t, txIndex, g, input), input), input)

\* a transaction without transfers is skipped by the early return
skipsTx(t) == ~hasTokenTransfers(t) /\ ~hasNativeTransfers(t)

\* the forEach body without the early return for empty transactions
processTx_noSkip(t, txIndex, g, input) ==
  LET h == processShapes(t, txIndex, g, input)
  IN [nodes |-> forEachAccount(t.accountData, 1, h.nodes, input),
      edges |-> h.edges]

\* body of transactions.forEach((tx, index) => ...)
processTx(t, txIndex, g, input) ==
  IF skipsTx(t) THEN g
  ELSE LET h == processShapes(t, txIndex, g, input)
       IN [nodes |-> forEachAccount(t.accountData, 1, h.nodes, input),
           edges |-> h.edges]

\* edges.forEach(edge => { add(edge.source); add(edge.target) })
addressesInTransfers(es) ==
  {es[i].source : i \in 1..Len(es)} \cup {es[i].target : i \in 1..Len(es)}

\* edges.forEach(edge => { if (edge.mint) uniqueMints.add(edge.mint) })
mintsOf(es) == {es[i].mint : i \in {j \in 1..Len(es) : Truthy(es[j].mint)}}

\* addresses some entity source may know, and what is known of them
Resolvable  == {B}
EntityOf(a) == "entity:" \o a
MetadataOf(m) == "metadata:" \o m
SymbolOf(m) == "symbol:" \o m

\* enhancedNodes = Array.from(nodes.values()).map(...)
enhanceNodes(ns, entityInfo) ==
  [i \in 1..Len(ns) |->
     IF ns[i].id \in DOMAIN entityInfo
     THEN [ns[i] EXCEPT !.entity = entityInfo[ns[i].id]] ELSE ns[i]]

\* the edges mapped back to front
enhanceEdges_reversed(es, tokenMetadata) ==
  [i \in 1..Len(es) |->
     LET e == es[Len(es) + 1 - i]
     IN IF Truthy(e.mint) /\ e.mint \in DOMAIN tokenMetadata
        THEN [e EXCEPT !.tokenMetadata = tokenMetadata[e.mint]]
        ELSE e]

\* enhancedEdges = edges.map(...)
enhanceEdges(es, tokenMetadata) ==
  [i \in 1..Len(es) |->
     IF Truthy(es[i].mint) /\ es[i].mint \in DOMAIN tokenMetadata
     THEN [es[i] EXCEPT !.tokenMetadata = tokenMetadata[es[i].mint]]
     ELSE es[i]]

\* an edge whose symbol enhanceTokenMetadata looks up
needsSymbol(e) ==
  Truthy(e.mint) /\ (e.tokenSymbol = "Unknown" \/ ~Truthy(e.tokenSymbol))

unknownMints(es) == {es[i].mint : i \in {j \in 1..Len(es) : needsSymbol(es[j])}}

\* a cache hit fills in the edge that asked
applyCached(es, cached) ==
  [i \in 1..Len(es) |->
     IF needsSymbol(es[i]) /\ es[i].mint \in cached
     THEN [es[i] EXCEPT !.tokenSymbol = SymbolOf(es[i].mint)] ELSE es[i]]

\* a network answer is written to every edge of that mint
applyFetched(es, fetched) ==
  [i \in 1..Len(es) |->
     IF es[i].mint \in fetched
     THEN [es[i] EXCEPT !.tokenSymbol = SymbolOf(es[i].mint)] ELSE es[i]]

\* ------------------------------------------------------- the time filter
\* timeRange is absent, or carries the getTime() of its start and end
NoTimeRange == [given |-> FALSE, start |-> 0, end |-> 0]
RangeBounds == {0, 169000, 170000, 171000}
TimeRanges  ==
  {NoTimeRange} \cup [given : {TRUE}, start : RangeBounds, end : RangeBounds]

\* tx.timestamp as the upstream API may send it: missing (0), in seconds, at
\* the cutoff, in milliseconds
RawTimestamps == {0, 169, 170, 171, 172, 1000, 1001, 170000, 170500}

\* tx.timestamp ? (tx.timestamp > 1e10 ? tx.timestamp : tx.timestamp * 1000) : 0
txTime(timestamp) ==
  IF timestamp # 0
  THEN (IF timestamp > SecondsCutoff THEN timestamp ELSE timestamp * MsPerSecond)
  ELSE 0

\* the filter callback with an exclusive upper bound
keepsTx_exclusiveEnd(t, range) ==
  txTime(t.timestamp) >= range.start /\ txTime(t.timestamp) < range.end

\* the callback of filteredTransactions.filter(tx => ...)
keepsTx(t, range) ==
  txTime(t.timestamp) >= range.start /\ txTime(t.timestamp) <= range.end

\* ------------------------------------------------------ the rate limiter
Clients  == {"ip1", "ip2"}
NoWindow == [open |-> FALSE, windowStart |-> 0, count |-> 0]
NotSeen  == [open |-> FALSE, since |-> 0, requests |-> 0, passed |-> 0]
NoCheck  == [client |-> "none", status |-> 0, retryAfter |-> 0]

\* The counter of the store: a window is created by the first request of an
\* identifier, counts the admitted requests and expires RateWindow seconds
\* after its start.
storeLimit(w, now) ==
  IF ~w.open \/ now >= w.windowStart + RateWindow
  THEN [window |-> [open |-> TRUE, windowStart |-> now, count |-> 1],
        success |-> TRUE, reset |-> now + RateWindow]
  ELSE IF w.count < RateLimit
  THEN [window |-> [w EXCEPT !.count = w.count + 1],
        success |-> TRUE, reset |-> w.windowStart + RateWindow]
  ELSE [window |-> w,
        success |-> FALSE, reset |-> w.windowStart + RateWindow]

\* checkRateLimit that admits whatever the store says
checkRateLimit_alwaysAllows(identifier, w, now, configured, throws) ==
  [storeLimit(w, now) EXCEPT !.success = TRUE]

\* checkRateLimit that refuses when the store cannot be asked
checkRateLimit_failClosed(identifier, w, now, configured, throws) ==
  IF ~configured \/ throws
  THEN [window |-> w, success |-> FALSE, reset |-> now + RateWindow]
  ELSE storeLimit(w, now)

\* checkRateLimit(identifier): w is the store's window of the identifier,
\* throws tells whether ratelimit.limit throws on this call
checkRateLimit(identifier, w, now, configured, throws) ==
  IF ~configured
  THEN [window |-> w, success |-> TRUE, reset |-> now]
  ELSE IF throws
  THEN [window |-> w, success |-> TRUE, reset |-> now]
  ELSE storeLimit(w, now)

\* the requests of a client since the first one of the current 60 seconds
noteRequest(s, now, letThrough) ==
  LET fresh == ~s.open \/ now >= s.since + RateWindow
      pass  == IF letThrough THEN 1 ELSE 0
  IN IF fresh
     THEN [open |-> TRUE, since |-> now, requests |-> 1, passed |-> pass]
     ELSE [s EXCEPT !.requests = s.requests + 1, !.passed = s.passed + pass]

\* ------------------------------------------- the handler's error handling
\* An error is its code, its message (the words of error.message) and the
\* status of error.response (0 when the error carries no response).
NoError == [code |-> "none", message |-> << >>, status |-> 0]

\* axios rejects with this when its timeout passes
AxiosTimeout ==
  [code |-> "ECONNABORTED",
   message |-> <<"timeout", "of", "60000ms", "exceeded">>, status |-> 0]

\* new Error('Processing timeout') of the race
ProcessingTimeoutError ==
  [code |-> "none", message |-> <<"Processing", "timeout">>, status |-> 0]

UpstreamStatuses == {400, 401, 403, 404, 429, 500, 503}

\* axios rejects with one of these when the upstream answers with an error
\* status
HttpError(st) ==
  [code |-> IF st < 500 THEN "ERR_BAD_REQUEST" ELSE "ERR_BAD_RESPONSE",
   message |-> <<"Request", "failed", "with", "status", "code", ToString(st)>>,
   status |-> st]

\* ... and with one of these when the connection fails
NetworkErrors ==
  { [code |-> "ECONNRESET", message |-> <<"socket", "hang", "up">>,
     status |-> 0],
    [code |-> "ENOTFOUND",
     message |-> <<"getaddrinfo", "ENOTFOUND", "api.helius.xyz">>,
     status |-> 0] }

UpstreamErrors == {HttpError(st) : st \in UpstreamStatuses} \cup NetworkErrors

\* what processTransactions throws on a response that is not a list
ProcessingErrors ==
  { [code |-> "none",
     message |-> <<"transactions.forEach", "is", "not", "a", "function">>,
     status |-> 0] }

\* error.message.includes(word)
includes(message, word) == \E i \in 1..Len(message) : message[i] = word

NoRetryAfter == 0
NoResponse ==
  [status |-> 0, error |-> Undefined, retryAfter |-> NoRetryAfter,
   graph |-> FALSE, annotations |-> 0]

ErrorBody(st, text, retry) ==
  [status |-> st, error |-> text, retryAfter |-> retry,
   graph |-> FALSE, annotations |-> 0]

TimeoutText == "Request timeout. The processing is taking too long. Please try again."
UpstreamLimitText == "Helius API rate limit exceeded. Please try again later."
InvalidText == "Invalid wallet address or API request"
ConfigText == "API configuration error. Please try again later."
GenericText == "Failed to fetch transaction data. Please try again later."

\* res.status(200).json({...enhancedData, requestInfo})
successResponse(n) ==
  [status |-> 200, error |-> Undefined, retryAfter |-> NoRetryAfter,
   graph |-> TRUE, annotations |-> n]

\* a catch block that hands back what has been built when the time is up
errorResponse_partialOnTimeout(error, n) ==
  IF error.code = "ECONNABORTED" \/ includes(error.message, "timeout")
  THEN [status |-> 408, error |-> TimeoutText, retryAfter |-> NoRetryAfter,
        graph |-> TRUE, annotations |-> n]
  ELSE ErrorBody(500, GenericText, NoRetryAfter)

\* a catch block that hands the upstream's status on
errorResponse_upstreamStatus(error, n) ==
  IF error.code = "ECONNABORTED" \/ includes(error.message, "timeout")
  THEN ErrorBody(408, TimeoutText, NoRetryAfter)
  ELSE IF error.status # 0
  THEN ErrorBody(error.status, GenericText, NoRetryAfter)
  ELSE ErrorBody(500, GenericText, NoRetryAfter)

\* the catch block of the handler; n is the number of annotations made so
\* far, which the block does not use
errorResponse(error, n) ==
  IF \/ error.code = "ECONNABORTED"
     \/ includes(error.message, "timeout")
     \/ (includes(error.message, "Processing")
           /\ includes(error.message, "timeout"))
  THEN ErrorBody(408, TimeoutText, NoRetryAfter)
  ELSE IF error.status = 429
  THEN ErrorBody(429, UpstreamLimitText, UpstreamRetryAfter)
  ELSE IF error.status = 400
  THEN ErrorBody(400, InvalidText, NoRetryAfter)
  ELSE IF error.status = 401
  THEN ErrorBody(500, ConfigText, NoRetryAfter)
  ELSE ErrorBody(500, GenericText, NoRetryAfter)

\* ------------------------------------------------- the entity identifier
\* (EntityIdentifier of lib/entity-identifier; without UPSTASH_REDIS_REST_URL
\* the external cache is never touched)
RegistryAddress == "X"     \* an address listed in knownEntities
OtherAddress    == "Y"     \* an address knownEntities does not list
EntityAddresses == {NoAddress, RegistryAddress, OtherAddress}

\* JavaScript null as an entity
NullEntity == [name |-> "null", source |-> "null"]

\* a cache without entries
NoEntries == [a \in EntityAddresses |-> NullEntity]

\* the lookups that follow the registry, in the order getEntityInfo tries them
Sources == <<"sns", "solscan", "birdeye", "jupiter">>

\* what one lookup of a source does: it finds an entity, finds none, throws,
\* or runs into its timeout
Outcomes == {"found", "none", "throws", "timeout"}

\* what the sources do during one getEntityInfo call; the sources after the
\* one that finds the entity are not called, and are given as "none"
SourceOutcomes ==
  { o \in [1..Len(Sources) -> Outcomes] :
      \A i \in 1..Len(Sources), j \in 1..Len(Sources) :
        (i < j /\ o[i] = "found") => o[j] = "none" }

NoOutcomes == [i \in 1..Len(Sources) |-> "none"]

\* what a source returns for an address it knows
FoundBy(source, address) == [name |-> address, source |-> source]

\* a registry that lists nothing
findKnownEntity_empty(address) == NullEntity

\* findKnownEntity(address)
findKnownEntity(address) ==
  IF address = RegistryAddress
  THEN [name |-> "Tensor", source |-> "known_entities"]
  ELSE NullEntity

\* getEntityInfo that keeps nothing in this.cache
remember_nothing(cache, address, entityInfo) == cache

\* this.cache.set(address, entityInfo)
remember(cache, address, entityInfo) == [cache EXCEPT ![address] = entityInfo]

\* a cacheEntityInfo whose setex stores nothing
cacheEntityInfo_dropsWrite(store, address, entityInfo, configured, setOk) ==
  IF entityInfo = NullEntity \/ ~configured
  THEN [store |-> store, calls |-> << >>]
  ELSE [store |-> store, calls |-> <<"redis.setex">>]

\* cacheEntityInfo(address, entityInfo): the setex is issued when the
\* external cache is configured, and stores the entity unless it fails
cacheEntityInfo(store, address, entityInfo, configured, setOk) ==
  IF entityInfo = NullEntity \/ ~configured
  THEN [store |-> store, calls |-> << >>]
  ELSE [store |-> IF setOk THEN [store EXCEPT ![address] = entityInfo]
                  ELSE store,
        calls |-> <<"redis.setex">>]

\* a lookup that lets the failure of a source out
trySource_rethrows(address, outcome, i) ==
  [entity  |-> IF outcome = "found" THEN FoundBy(Sources[i], address)
               ELSE NullEntity,
   seconds |-> IF outcome = "timeout" THEN SourceTimeout ELSE 0,
   failed  |-> outcome \in {"throws", "timeout"},
   threw   |-> outcome \in {"throws", "timeout"}]

\* one try { ... } catch of getEntityInfo around the lookup of Sources[i]
trySource(address, outcome, i) ==
  [entity  |-> IF outcome = "found" THEN FoundBy(Sources[i], address)
               ELSE NullEntity,
   seconds |-> IF outcome = "timeout" THEN SourceTimeout ELSE 0,
   failed  |-> outcome \in {"throws", "timeout"},
   threw   |-> FALSE]

\* the lookups of getEntityInfo from Sources[i] on: the first entity found is
\* returned, a lookup that finds none or fails hands over to the next one
RECURSIVE trySources(_, _, _)
trySources(address, outcomes, i) ==
  IF i > Len(Sources)
  THEN [entity |-> NullEntity, calls |-> << >>, seconds |-> 0, failures |-> 0,
        threw |-> FALSE]
  ELSE LET r == trySource(address, outcomes[i], i)
           fails == IF r.failed THEN 1 ELSE 0
       IN IF r.threw
          THEN [entity |-> NullEntity, calls |-> <<Sources[i]>>,
                seconds |-> r.seconds, failures |-> fails, threw |-> TRUE]
          ELSE IF r.entity # NullEntity
          THEN [entity |-> r.entity, calls |-> <<Sources[i]>>,
                seconds |-> r.seconds, failures |-> fails, threw |-> FALSE]
          ELSE LET rest == trySources(address, outcomes, i + 1)
               IN [entity |-> rest.entity,
                   calls |-> <<Sources[i]>> \o rest.calls,
                   seconds |-> r.seconds + rest.seconds,
                   failures |-> fails + rest.failures,
                   threw |-> rest.threw]

\* a getTokenMetadata that lets the failure of its request out
tryTokenMetadata_rethrows(outcome) ==
  [found   |-> outcome = "found",
   seconds |-> IF outcome = "timeout" THEN TokenTimeout ELSE 0,
   failed  |-> outcome \in {"throws", "timeout"},
   threw   |-> outcome \in {"throws", "timeout"}]

\* getTokenMetadata(mintAddress): the try { ... } catch around its request
tryTokenMetadata(outcome) ==
  [found   |-> outcome = "found",
   seconds |-> IF outcome = "timeout" THEN TokenTimeout ELSE 0,
   failed  |-> outcome \in {"throws", "timeout"},
   threw   |-> FALSE]

\* a getEntityInfo that asks the sources before it looks into the registry
getEntityInfo_registryLast(address, cache, store, configured, getOk, setOk, outcomes) ==
  LET same(entity, calls) ==
        [entity |-> entity, cache |-> cache, store |-> store, calls |-> calls]
      kept(entity, calls) ==
        LET c == cacheEntityInfo(store, address, entity, configured, setOk)
        IN [entity |-> entity, cache |-> remember(cache, address, entity),
            store |-> c.store, calls |-> calls \o c.calls]
      get == IF configured THEN <<"redis.get">> ELSE << >>
      r == trySources(address, outcomes, 1)
  IN IF address = NoAddress THEN same(NullEntity, << >>)
     ELSE IF cache[address] # NullEntity THEN same(cache[address], << >>)
     ELSE IF configured /\ getOk /\ store[address] # NullEntity
     THEN [entity |-> store[address],
           cache |-> remember(cache, address, store[address]),
           store |-> store, calls |-> get]
     ELSE IF r.entity # NullEntity THEN kept(r.entity, get \o r.calls)
     ELSE IF findKnownEntity(address) # NullEntity
     THEN kept(findKnownEntity(address), get \o r.calls)
     ELSE same(NullEntity, get \o r.calls)

\* getEntityInfo(address). cache is this.cache, store the external cache,
\* configured tells whether UPSTASH_REDIS_REST_URL is set, getOk and setOk
\* whether the get and the setex of the external cache go through, outcomes
\* what the sources do. The result carries the entity returned, the two
\* caches afterwards and the calls made, in order.
getEntityInfo(address, cache, store, configured, getOk, setOk, outcomes) ==
  LET same(entity, calls) ==
        [entity |-> entity, cache |-> cache, store |-> store, calls |-> calls]
      kept(entity, calls) ==
        LET c == cacheEntityInfo(store, address, entity, configured, setOk)
        IN [entity |-> entity, cache |-> remember(cache, address, entity),
            store |-> c.store, calls |-> calls \o c.calls]
      get == IF configured THEN <<"redis.get">> ELSE << >>
  IN IF address = NoAddress THEN same(NullEntity, << >>)
     ELSE IF cache[address] # NullEntity THEN same(cache[address], << >>)
     ELSE IF configured /\ getOk /\ store[address] # NullEntity
     THEN [entity |-> store[address],
           cache |-> remember(cache, address, store[address]),
           store |-> store, calls |-> get]
     ELSE IF findKnownEntity(address) # NullEntity
     THEN kept(findKnownEntity(address), get)
     ELSE LET r == trySources(address, outcomes, 1)
          IN IF r.entity # NullEntity
             THEN kept(r.entity, get \o r.calls)
             ELSE same(NullEntity, get \o r.calls)

\* ------------------------------------- enhanceTokenMetadata and its cache
\* An edge as enhanceTokenMetadata sees it: its mint and its token fields.
\* Values of tokenMetadata and of the cache are records with a kind:
\* "undefined", "null", the object getTokenMetadata of the entity identifier
\* returned ("identifier"), the object the batch path builds ("batch").
NoMetadata         == [kind |-> "undefined", symbol |-> "", name |-> ""]
NullMetadata       == [kind |-> "null", symbol |-> "", name |-> ""]
IdentifierMetadata == [kind |-> "identifier", symbol |-> "", name |-> ""]

TokenEdges ==
  [mint : Mints, tokenSymbol : {"Unknown", "USDC"}, tokenName : {Undefined},
   tokenLogo : {Undefined}, tokenMetadata : {NoMetadata, IdentifierMetadata}]

\* what the token-metadata endpoint knows of a mint; "" is a missing field
NoTokenInfo == [known |-> FALSE, onChainSymbol |-> "", offChainSymbol |-> "",
                onChainName |-> "", logoURI |-> Undefined]
TokenInfos ==
  [known : {TRUE}, onChainSymbol : {"", "XYZ"}, offChainSymbol : {"", "xyz"},
   onChainName : {"", "Token Name"}, logoURI : {Undefined, "logo.png"}]
  \cup {NoTokenInfo}

\* the answers of the endpoint: whether the batch request and the request
\* for a single mint succeed, and what they return for the mint
UpstreamAnswers == [batchOk : BOOLEAN, individualOk : BOOLEAN, info : TokenInfos]

\* a || b of JavaScript on strings
Or(a, b) == IF a # "" THEN a ELSE b

\* name.slice(0, 4)
slice4(name) == IF name = "Token Name" THEN "Toke" ELSE name

\* no record under token:<mint>
NoRecord == [present |-> FALSE, symbol |-> "", name |-> "", logo |-> Undefined,
             metadata |-> NullMetadata]

\* cacheData of the batch path
batchRecord(info) ==
  LET symbol == Or(info.onChainSymbol,
                   Or(info.offChainSymbol, Or(slice4(info.onChainName), "Unknown")))
      name   == Or(info.onChainName, "Unknown")
  IN [present |-> TRUE, symbol |-> symbol, name |-> name,
      logo |-> info.logoURI,
      metadata |-> [kind |-> "batch", symbol |-> symbol, name |-> name]]

\* cacheData of the fallback path
individualRecord(info) ==
  [present |-> TRUE,
   symbol |-> Or(info.onChainSymbol, Or(info.offChainSymbol, "Unknown")),
   name |-> Or(info.onChainName, "Unknown"),
   logo |-> info.logoURI,
   metadata |-> NullMetadata]

\* the cache pass: an edge that asks and finds a record takes its four fields
fromCache(es, record) ==
  [i \in 1..Len(es) |->
     IF needsSymbol(es[i]) /\ record.present
     THEN [es[i] EXCEPT !.tokenSymbol = record.symbol,
                        !.tokenName = record.name,
                        !.tokenLogo = record.logo,
                        !.tokenMetadata = record.metadata]
     ELSE es[i]]

\* a batch path that writes to the first edge of the mint only
fromBatch_firstOnly(es, mint, record) ==
  [i \in 1..Len(es) |->
     IF es[i].mint = mint /\ i = 1
     THEN [es[i] EXCEPT !.tokenSymbol = record.symbol,
                        !.tokenName = record.name,
                        !.tokenLogo = record.logo,
                        !.tokenMetadata = record.metadata]
     ELSE es[i]]

\* the batch path: every edge of the mint takes the four fields
fromBatch(es, mint, record) ==
  [i \in 1..Len(es) |->
     IF es[i].mint = mint
     THEN [es[i] EXCEPT !.tokenSymbol = record.symbol,
                        !.tokenName = record.name,
                        !.tokenLogo = record.logo,
                        !.tokenMetadata = record.metadata]
     ELSE es[i]]

\* the fallback path: every edge of the mint takes symbol, name and logo
fromIndividual(es, mint, record) ==
  [i \in 1..Len(es) |->
     IF es[i].mint = mint
     THEN [es[i] EXCEPT !.tokenSymbol = record.symbol,
                        !.tokenName = record.name,
                        !.tokenLogo = record.logo]
     ELSE es[i]]

\* enhanceTokenMetadata on the edges es. record is what the gets of the cache
\* return for the mint (NoRecord when they find nothing or fail), up the
\* answers of the endpoint. The result carries the edges and the record
\* handed to setCachedTokenMetadata (NoRecord when none is).
enhanceTokenMetadata(es, mint, record, up) ==
  IF Len(es) = 0 THEN [edges |-> es, set |-> NoRecord]
  ELSE LET afterCache == fromCache(es, record)
           unknownTokens ==
             IF record.present THEN {} ELSE unknownMints(es)
       IN IF mint \notin unknownTokens
          THEN [edges |-> afterCache, set |-> NoRecord]
          ELSE IF up.batchOk
          THEN (IF up.info.known
                THEN [edges |-> fromBatch(afterCache, mint, batchRecord(up.info)),
                      set |-> batchRecord(up.info)]
                ELSE [edges |-> afterCache, set |-> NoRecord])
          ELSE IF up.individualOk /\ up.info.known
          THEN [edges |-> fromIndividual(afterCache, mint,
                                         individualRecord(up.info)),
                set |-> individualRecord(up.info)]
          ELSE [edges |-> afterCache, set |-> NoRecord]

\* ------------------------------------------- the handler's input validation
\* A string is the sequence of its runs of characters of one class: base58
\* characters, other visible characters ('0', 'O', 'I', 'l', '<', ...) and
\* white space; neighbouring runs are of different classes.
Base58  == "base58"
Visible == "visible"
Space   == "space"
CharClasses == {Base58, Visible, Space}
RunLengths  == {1, 31, 44}
Segments    == [class : CharClasses, count : RunLengths]
Strings ==
  {s \in SeqsUpTo(Segments, MaxSegments) :
     \A i \in 1..(Len(s) - 1) : s[i].class # s[i + 1].class}

\* the number of characters of a string
RECURSIVE Length(_)
Length(s) == IF s = << >> THEN 0 ELSE s[1].count + Length(Tail(s))

\* String.prototype.trim()
RECURSIVE trimStart(_)
trimStart(s) ==
  IF s # << >> /\ s[1].class = Space THEN trimStart(Tail(s)) ELSE s
RECURSIVE trimEnd(_)
trimEnd(s) ==
  IF s # << >> /\ s[Len(s)].class = Space
  THEN trimEnd(SubSeq(s, 1, Len(s) - 1)) ELSE s
trim(s) == trimEnd(trimStart(s))

\* s.replace(/[^1-9A-HJ-NP-Za-km-z]/g, ''): what is left is one run
stripNonBase58(s) ==
  LET kept == SelectSeq(s, LAMBDA seg : seg.class = Base58)
  IN IF kept = << >> THEN << >>
     ELSE <<[class |-> Base58, count |-> Length(kept)]>>

\* address.trim().replace(/[^1-9A-HJ-NP-Za-km-z]/g, '')
cleanAddressOf(address) == stripNonBase58(trim(address))

\* /^[1-9A-HJ-NP-Za-km-z]{32,44}$/.test(s)
solanaAddressRegex(s) ==
  /\ \A i \in 1..Len(s) : s[i].class = Base58
  /\ Length(s) >= MinAddressLength
  /\ Length(s) <= MaxAddressLength

\* req.body.address: not sent, not a string, or a string
NoString     == [kind |-> "undefined", text |-> << >>]
NotAString   == [kind |-> "number", text |-> << >>]
AddressValues ==
  {NoString, NotAString} \cup [kind : {"string"}, text : Strings]
ValidAddress == [kind |-> "string",
                 text |-> <<[class |-> Base58, count |-> 44]>>]

\* a bound of a time range: not sent, not a timestamp, or an ISO timestamp,
\* given by its getTime() in units of 10^7 milliseconds
NoBound      == [kind |-> "undefined", time |-> 0]
GarbageBound == [kind |-> "garbage", time |-> 0]
BoundTimes   == {170000, 170008, 170050}
BoundValues  ==
  {NoBound, GarbageBound} \cup [kind : {"iso"}, time : BoundTimes]

\* req.body.timeRange: not sent, not an object, or an object
NoRange      == [kind |-> "undefined", start |-> NoBound, end |-> NoBound]
NotAnObject  == [kind |-> "string", start |-> NoBound, end |-> NoBound]
RangeValues  ==
  {NoRange, NotAnObject}
    \cup [kind : {"object"}, start : BoundValues, end : BoundValues]

\* new Date(bound).getTime(): NaN for what is not a timestamp
NaN == [nan |-> TRUE, time |-> 0]
getTime(bound) ==
  IF bound.kind = "iso" THEN [nan |-> FALSE, time |-> bound.time] ELSE NaN

\* a <= b and a >= b of JavaScript numbers: false when either is NaN
Lte(a, b) == ~a.nan /\ ~b.nan /\ a.time <= b.time
Gte(a, b) == ~a.nan /\ ~b.nan /\ a.time >= b.time

\* daysDiff <= days, where daysDiff = (endTime - startTime) / (1000*60*60*24)
withinDays(startTime, endTime, days) ==
  /\ ~startTime.nan /\ ~endTime.nan
  /\ (endTime.time - startTime.time) * UnitSeconds <= days * SecondsPerDay

\* limits that grow with the window
getLimitForTimeRange_widerGetsMore(range) ==
  IF range.kind = "undefined" THEN DefaultLimit
  ELSE LET startTime == getTime(range.start)
           endTime   == getTime(range.end)
       IN IF withinDays(startTime, endTime, 1) THEN 20
          ELSE IF withinDays(startTime, endTime, 3) THEN 30
          ELSE IF withinDays(startTime, endTime, 7) THEN 50
          ELSE IF withinDays(startTime, endTime, 14) THEN 75
          ELSE 100

\* getLimitForTimeRange(timeRange)
getLimitForTimeRange(range) ==
  IF range.kind = "undefined" THEN DefaultLimit
  ELSE LET startTime == getTime(range.start)
           endTime   == getTime(range.end)
       IN IF withinDays(startTime, endTime, 1) THEN 100
          ELSE IF withinDays(startTime, endTime, 3) THEN 75
          ELSE IF withinDays(startTime, endTime, 7) THEN 50
          ELSE IF withinDays(startTime, endTime, 14) THEN 30
          ELSE 20

\* the callback of filteredTransactions.filter(tx => ...) on the bounds as
\* the request carries them
keepsTxOf(timestamp, range) ==
  LET t == [nan |-> FALSE, time |-> txTime(timestamp)]
  IN Gte(t, getTime(range.start)) /\ Lte(t, getTime(range.end))

\* let filteredTransactions = response.data || []; if (timeRange) filter
filterByRange(data, range) ==
  IF range.kind = "undefined" THEN data
  ELSE SelectSeq(data, LAMBDA timestamp : keepsTxOf(timestamp, range))

\* tx.timestamp of the transactions the upstream API returns
IntakeTimestamps == {0, 170, 170005}

\* the requests
Methods == {"POST", "OPTIONS", "GET"}
GoodRequest ==
  [method |-> "POST", large |-> FALSE, body |-> TRUE,
   address |-> ValidAddress, timeRange |-> NoRange]
Requests ==
  {[GoodRequest EXCEPT !.method = m] : m \in Methods}
    \cup {[GoodRequest EXCEPT !.large = TRUE],
          [GoodRequest EXCEPT !.body = FALSE]}
    \cup {[GoodRequest EXCEPT !.address = a] : a \in AddressValues}
    \cup {[GoodRequest EXCEPT !.timeRange = r] : r \in RangeValues}
    \cup {[GoodRequest EXCEPT !.address = [kind |-> "string", text |-> << >>],
                               !.timeRange = NotAnObject]}

\* the responses of the handler before the upstream call
MethodText  == "Method not allowed"
TooLargeText == "Request too large"
RateText    == "Rate limit exceeded"
BodyText    == "Invalid request body. Expected JSON object."
AddressText == "Wallet address is required and must be a string"
RangeText   == "Invalid time range format. Expected object with start and end properties."
FormatText  == "Invalid Solana wallet address format"
NoReply     == [status |-> 0, error |-> "", inputNode |-> << >>, kept |-> 0]
Reply(st, text) == [NoReply EXCEPT !.status = st, !.error = text]

\* the validation of the try block up to the upstream call: the response it
\* sends, or status 0 and the cleaned address when the request passes
validation(r, key) ==
  LET clean == cleanAddressOf(r.address.text)
  IN IF ~r.body THEN [reply |-> Reply(400, BodyText), clean |-> << >>]
     ELSE IF r.address.kind # "string" \/ r.address.text = << >>
     THEN [reply |-> Reply(400, AddressText), clean |-> << >>]
     ELSE IF r.timeRange.kind # "undefined"
             /\ (r.timeRange.kind # "object"
                 \/ r.timeRange.start.kind = "undefined"
                 \/ r.timeRange.end.kind = "undefined")
     THEN [reply |-> Reply(400, RangeText), clean |-> << >>]
     ELSE IF ~solanaAddressRegex(clean)
     THEN [reply |-> Reply(400, FormatText), clean |-> << >>]
     ELSE IF ~key THEN [reply |-> Reply(500, ConfigText), clean |-> << >>]
     ELSE [reply |-> NoReply, clean |-> clean]

\* ------------------------------------------------ batchResolveAddresses
\* const systemAccounts = new Set([...])
systemAccounts ==
  {"11111111111111111111111111111111",
   "ComputeBudget111111111111111111111111111111",
   "metaqbxxUerdq28cj1RbAWkYQm3ybzjb6a8bt518x1s",
   "noopb9bkMVfRPU8AsbpTUg8AQkHtKwMYZiFUjNRtMmV",
   "cmtDvXumGCrqC1Age74AVPhSRVXJMd8PJS91L8KbNCK",
   "BGUMAp9Gq7iTEuizy4pqaxsTyUCBK68MDfK752saRPUY",
   "Dapb6C9jUfskHpsPi5RMHwF3maou3dhAu9qRhATLWwsx",
   "HZsTgaKPW7iD4pPwuqmTy9qtAKo3B4M7ArfRRDfEr3Li",
   "GcGjxR9XFviqKnCbsoSgUsJoiUFcDASYjuUQtxm74uDE",
   "9ryvH2pZpMm5sxKuhCHjbZyxUuu4MNhrmMToLCj1wHgj",
   "4ewWZC5gT6TGpm5LZNDs9wVonfUT2q5PP5sc9kVbwMAK",
   "5MkpCor71kSJ7FG9edD7jc5biuWq34zXbaYUXnJ5kHmA",
   "8XhbiW5YgzvAFYBkje6sSNG8YKi6xPN92yguQXXowLuH"}

SystemProgram == "11111111111111111111111111111111"

\* the copies of the resolver in the repository: the one with the exclusion
\* set and the groups of ten, and the one that pages/api/transactions.js
\* imports as '../../lib/entity-identifier'
BatchedCopy == "unnamed/part_006"
LibCopy == "lib/entity-identifier.js"
ResolverFiles == {BatchedCopy, LibCopy}

\* the wallets of a chain of transfers: the queried wallet, then one wallet
\* per transfer; the wallet at position sysAt is the System Program
Wallet(k, sysAt) ==
  IF k = 0 THEN W
  ELSE IF k = sysAt THEN SystemProgram
  ELSE "w" \o ToString(k)

\* an address that the accountData of the transactions carry and no transfer
AccountOnly == "acct"

\* transaction k of the chain: one token transfer from a wallet of the chain
\* to the next one, the queried wallet among its accounts
ChainTx(k, sysAt) ==
  [tokenTransfers |->
     <<[fromUserAccount |-> Wallet(k - 1, sysAt),
        toUserAccount |-> Wallet(k, sysAt), tokenAmount |-> 2,
        uiAmount |-> NoUiAmount, mint |-> "M", tokenSymbol |-> Undefined]>>,
   nativeTransfers |-> << >>,
   transfers |-> << >>,
   accountData |-> <<W, AccountOnly>>]

\* the set as an array: Array.from(addressesInTransfers), in insertion order
RECURSIVE uniqueAddressesOf(_, _, _)
uniqueAddressesOf(es, i, acc) ==
  IF i > Len(es) THEN acc
  ELSE LET has(s, a) == \E j \in 1..Len(s) : s[j] = a
           withSource == IF has(acc, es[i].source) THEN acc
                         ELSE Append(acc, es[i].source)
           withTarget == IF has(withSource, es[i].target) THEN withSource
                         ELSE Append(withSource, es[i].target)
       IN uniqueAddressesOf(es, i + 1, withTarget)

\* addresses.filter(addr => !systemAccounts.has(addr))
filterSystemAccounts(addresses) ==
  SelectSeq(addresses, LAMBDA addr : addr \notin systemAccounts)

\* Array.prototype.slice(from, to) with 0 <= from <= to
slice(s, from, to) ==
  SubSeq(s, from + 1, IF to < Len(s) THEN to ELSE Len(s))

Range(s) == {s[i] : i \in 1..Len(s)}

BatchIdle ==
  /\ resolverFile = "none"
  /\ chainLength = 0
  /\ systemAt = 0
  /\ failing = {}
  /\ phase = "idle"
  /\ filteredAddresses = << >>
  /\ cursor = 0
  /\ inFlight = {}
  /\ batchResults = {}
  /\ submitted = << >>
  /\ groups = 0
  /\ results = {}

\* ------------------------------------------------------------------- Init
GraphInit ==
  /\ inputAddress = W
  /\ pc = "forEach"
  /\ index = 0
  /\ tx = NoTx
  /\ nodes = <<InputNode(W)>>
  /\ edges = << >>
  /\ hasTransfers = FALSE
  /\ used = 0
  /\ result = Undefined
  /\ response = Undefined
  /\ entityLookups = {}
  /\ tokenLookups = {}
  /\ cacheGets = {}

FilterIdle ==
  /\ timeRange = NoTimeRange
  /\ responseData = << >>
  /\ filteredTransactions = << >>

RateIdle ==
  /\ ratelimit = TRUE
  /\ windows = [c \in Clients |-> NoWindow]
  /\ clock = 0
  /\ storeFailed = 0
  /\ seen = [c \in Clients |-> NotSeen]
  /\ last = NoCheck

HandlerIdle ==
  /\ apiKey = TRUE
  /\ stage = "start"
  /\ elapsed = 0
  /\ raceStart = 0
  /\ timer = "unset"
  /\ rounds = 0
  /\ failures = 0
  /\ hits = 0
  /\ annotated = 0
  /\ caught = NoError
  /\ res = NoResponse

EntityIdle ==
  /\ redisUrl = FALSE
  /\ entityCache = NoEntries
  /\ entityStore = NoEntries
  /\ resolved = [a \in EntityAddresses |-> << >>]

EnrichIdle ==
  /\ enrichEdges = << >>
  /\ upstream = [batchOk |-> TRUE, individualOk |-> TRUE, info |-> NoTokenInfo]
  /\ tokenCache = NoRecord
  /\ runs = << >>

ClassifyIdle ==
  /\ classifyInput = [list |-> "none", amount |-> 0, uiAmount |-> NoUiAmount]
  /\ classifyEdges = << >>

IntakeIdle ==
  /\ req = GoodRequest
  /\ step = "idle"
  /\ order = << >>
  /\ limitWindow = NoWindow
  /\ limitCalls = 0
  /\ upstreamCalls = << >>
  /\ reply = NoReply

LifeIdle ==
  /\ today = 0
  /\ cachedAt = [a \in EntityAddresses |-> 0]
  /\ storedAt = [a \in EntityAddresses |-> 0]
  /\ lastGet = "none"
  /\ lastSet = "none"

TokenIdle ==
  /\ mintList = << >>
  /\ lookupFails = {}
  /\ cacheHits = {}
  /\ tokenStage = "idle"
  /\ mintLookups = {}
  /\ metadataFound = {}
  /\ tokenMints = << >>
  /\ tokenCursor = 0
  /\ tokenBatch = << >>
  /\ callMints = << >>
  /\ fallbackAt = 0
  /\ tokenCalls = << >>
  /\ resolvedMints = {}

LimitIdle == limitLog = << >>

ReplyIdle ==
  /\ route = "none"
  /\ handlerAt = "idle"
  /\ work = "idle"
  /\ addressBatches = 0
  /\ entityLeft = 0
  /\ mintBatches = 0
  /\ tokenLeft = 0
  /\ fallbackLeft = 0
  /\ raceTimer = "unset"
  /\ sent = << >>

ShareIdle ==
  /\ askedAddress = NoAddress
  /\ sharedRedis = FALSE
  /\ sharedCache = NullEntity
  /\ cacheWrites = << >>
  /\ callStep = << >>
  /\ callResult = << >>

LateIdle == LimitIdle /\ ReplyIdle /\ ShareIdle

ExtraIdle == IntakeIdle /\ LifeIdle /\ BatchIdle /\ TokenIdle /\ LateIdle

MoreIdle ==
  HandlerIdle /\ EntityIdle /\ EnrichIdle /\ ClassifyIdle /\ ExtraIdle

Init == GraphInit /\ FilterIdle /\ RateIdle /\ MoreIdle

\* one iteration of transactions.forEach in processTransactions
ProcessTx ==
  /\ pc = "forEach"
  /\ index < MaxTxs
  /\ \E t \in TxSet(MaxTransfers - used) :
       LET g == processTx(t, index, [nodes |-> nodes, edges |-> edges],
                          inputAddress)
       IN /\ tx' = t
          /\ nodes' = g.nodes
          /\ edges' = g.edges
          /\ hasTransfers' = (hasTransfers \/ ~skipsTx(t))
          /\ used' = used + NumTransfers(t)
  /\ index' = index + 1
  /\ UNCHANGED <<inputAddress, pc, result, response, entityLookups,
                 tokenLookups, cacheGets>>
  /\ UNCHANGED <<filterVars, rateVars, moreVars>>

\* rest of processTransactions once the forEach is over: the early exit, or
\* entity resolution, token metadata and the assembled result
Finish ==
  /\ pc = "forEach"
  /\ pc' = "processed"
  /\ IF ~hasTransfers
     THEN /\ result' = [nodes |-> <<InputNode(inputAddress)>>,
                        edges |-> << >>,
                        totalTransactions |-> index,
                        entityInfo |-> << >>,
                        tokenMetadata |-> << >>]
          /\ UNCHANGED <<entityLookups, tokenLookups>>
     ELSE LET uniqueAddresses == addressesInTransfers(edges)
              uniqueMints == mintsOf(edges)
          IN /\ entityLookups' = entityLookups \cup uniqueAddresses
             /\ tokenLookups' = tokenLookups \cup uniqueMints
             /\ \E known \in SUBSET (uniqueAddresses \cap Resolvable),
                   found \in SUBSET uniqueMints :
                  LET entityInfo == [a \in known |-> EntityOf(a)]
                      tokenMetadata == [m \in found |-> MetadataOf(m)]
                  IN result' = [nodes |-> enhanceNodes(nodes, entityInfo),
                                edges |-> enhanceEdges(edges, tokenMetadata),
                                totalTransactions |-> index,
                                entityInfo |-> entityInfo,
                                tokenMetadata |-> tokenMetadata]
  /\ UNCHANGED <<inputAddress, index, tx, nodes, edges, hasTransfers, used,
                 response, cacheGets>>
  /\ UNCHANGED <<filterVars, rateVars, moreVars>>

\* enhanceTokenMetadata(transactionData), then the 200 response
Enhance ==
  /\ pc = "processed"
  /\ pc' = "done"
  /\ IF Len(result.edges) = 0
     THEN /\ response' = result
          /\ UNCHANGED <<cacheGets, tokenLookups>>
     ELSE LET wanted == unknownMints(result.edges)
          IN /\ cacheGets' = cacheGets \cup wanted
             /\ \E cached \in SUBSET wanted :
                  /\ tokenLookups' = tokenLookups \cup (wanted \ cached)
                  /\ \E fetched \in SUBSET (wanted \ cached) :
                       response' = [result EXCEPT !.edges =
                         applyFetched(applyCached(result.edges, cached), fetched)]
  /\ UNCHANGED <<inputAddress, index, tx, nodes, edges, hasTransfers, used,
                 result, entityLookups>>
  /\ UNCHANGED <<filterVars, rateVars, moreVars>>

Next == ProcessTx \/ Finish \/ Enhance

Spec == Init /\ [][Next]_vars

\* ------------------------------------------------------------ time filter
FilterInit ==
  /\ GraphInit
  /\ RateIdle
  /\ MoreIdle
  /\ timeRange \in TimeRanges
  /\ responseData = << >>
  /\ filteredTransactions = << >>

\* the filter reaches the next transaction of response.data
FilterTx ==
  /\ Len(responseData) < MaxFetched
  /\ \E ts \in RawTimestamps :
       LET t == [timestamp |-> ts, signature |-> Len(responseData) + 1]
       IN /\ responseData' = Append(responseData, t)
          /\ filteredTransactions' =
               IF timeRange.given
               THEN (IF keepsTx(t, timeRange)
                     THEN Append(filteredTransactions, t)
                     ELSE filteredTransactions)
               ELSE Append(filteredTransactions, t)
  /\ UNCHANGED <<timeRange, graphVars, rateVars, moreVars>>

FilterNext == FilterTx

FilterSpec == FilterInit /\ [][FilterNext]_vars

\* ---------------------------------------------------------- rate limiting
RateInit ==
  /\ GraphInit
  /\ FilterIdle
  /\ MoreIdle
  /\ ratelimit \in BOOLEAN
  /\ windows = [c \in Clients |-> NoWindow]
  /\ clock = 0
  /\ storeFailed = 0
  /\ seen = [c \in Clients |-> NotSeen]
  /\ last = NoCheck

\* the rate-limit check of the handler for a request of client c:
\* 429 with retryAfter when refused, otherwise the request goes on
RateLimitCheck(c, throws) ==
  /\ seen[c].requests < MaxRequests \/ clock >= seen[c].since + RateWindow
  /\ LET rateLimitResult == checkRateLimit(c, windows[c], clock, ratelimit, throws)
     IN /\ windows' = [windows EXCEPT ![c] = rateLimitResult.window]
        /\ seen' = [seen EXCEPT ![c] = noteRequest(seen[c], clock,
                                                   rateLimitResult.success)]
        /\ last' = IF ~rateLimitResult.success
                   THEN [client |-> c, status |-> 429,
                         retryAfter |-> rateLimitResult.reset - clock]
                   ELSE [client |-> c, status |-> 200, retryAfter |-> 0]
  /\ storeFailed' = storeFailed + (IF throws THEN 1 ELSE 0)
  /\ UNCHANGED <<ratelimit, clock, graphVars, filterVars, moreVars>>

\* a request whose ratelimit.limit call returns
Request == \E c \in Clients : RateLimitCheck(c, FALSE)

\* a request whose ratelimit.limit call throws
RequestStoreDown ==
  /\ ratelimit
  /\ storeFailed < MaxThrows
  /\ \E c \in Clients : RateLimitCheck(c, TRUE)

Tick ==
  /\ clock + TickSeconds <= MaxClock
  /\ clock' = clock + TickSeconds
  /\ UNCHANGED <<ratelimit, windows, storeFailed, seen, last, graphVars,
                 filterVars, moreVars>>

RateNext == Request \/ RequestStoreDown \/ Tick

RateSpec == RateInit /\ [][RateNext]_vars

\* ------------------------------------------- the handler and its deadline
HandlerInit ==
  /\ GraphInit
  /\ FilterIdle
  /\ RateIdle
  /\ EntityIdle
  /\ EnrichIdle
  /\ ClassifyIdle
  /\ ExtraIdle
  /\ apiKey \in BOOLEAN
  /\ stage = "start"
  /\ elapsed = 0
  /\ raceStart = 0
  /\ timer = "unset"
  /\ rounds = 0
  /\ failures = 0
  /\ hits = 0
  /\ annotated = 0
  /\ caught = NoError
  /\ res = NoResponse

\* the setTimeout of the race has run its time and has not fired yet
TimerDue == timer = "armed" /\ elapsed - raceStart >= ProcessingTimeout

\* the check of HELIUS_API_KEY, then startTime and the axios.get is issued
CheckApiKey ==
  /\ stage = "start"
  /\ IF ~apiKey
     THEN /\ stage' = "responded"
          /\ res' = ErrorBody(500, ConfigText, NoRetryAfter)
     ELSE /\ stage' = "fetching"
          /\ UNCHANGED res
  /\ UNCHANGED <<apiKey, elapsed, raceStart, timer, rounds, failures, hits,
                 annotated, caught>>
  /\ UNCHANGED <<graphVars, filterVars, rateVars, entityVars, enrichVars,
                 classifyVars, extraVars>>

\* time passes while the handler awaits; a timeout that is due goes first
Wait ==
  /\ stage \in {"fetching", "processing", "enhancing"}
  /\ stage = "fetching" => elapsed < UpstreamTimeout
  /\ ~TimerDue
  /\ elapsed + HandlerTick <= MaxElapsed
  /\ elapsed' = elapsed + HandlerTick
  /\ UNCHANGED <<apiKey, stage, raceStart, timer, rounds, failures, hits,
                 annotated, caught, res>>
  /\ UNCHANGED <<graphVars, filterVars, rateVars, entityVars, enrichVars,
                 classifyVars, extraVars>>

\* the axios.get resolves; the time filter runs; the race is created
FetchReturns ==
  /\ stage = "fetching"
  /\ stage' = "processing"
  /\ raceStart' = elapsed
  /\ timer' = "armed"
  /\ UNCHANGED <<apiKey, elapsed, rounds, failures, hits, annotated, caught,
                 res>>
  /\ UNCHANGED <<graphVars, filterVars, rateVars, entityVars, enrichVars,
                 classifyVars, extraVars>>

\* the handler's try block throws error: the catch block answers
Catch(error) ==
  /\ caught' = error
  /\ res' = errorResponse(error, annotated)
  /\ stage' = "responded"

\* the axios.get rejects with an error status or a connection failure
FetchFails ==
  /\ stage = "fetching"
  /\ \E error \in UpstreamErrors : Catch(error)
  /\ UNCHANGED <<apiKey, elapsed, raceStart, timer, rounds, failures, hits,
                 annotated>>
  /\ UNCHANGED <<graphVars, filterVars, rateVars, entityVars, enrichVars,
                 classifyVars, extraVars>>

\* the axios.get reaches its timeout
FetchTimesOut ==
  /\ stage = "fetching"
  /\ elapsed >= UpstreamTimeout
  /\ Catch(AxiosTimeout)
  /\ UNCHANGED <<apiKey, elapsed, raceStart, timer, rounds, failures, hits,
                 annotated>>
  /\ UNCHANGED <<graphVars, filterVars, rateVars, entityVars, enrichVars,
                 classifyVars, extraVars>>

\* processTransactions throws before it looks anything up
ProcessThrows ==
  /\ stage = "processing"
  /\ rounds = 0
  /\ ~TimerDue
  /\ \E error \in ProcessingErrors : Catch(error)
  /\ UNCHANGED <<apiKey, elapsed, raceStart, timer, rounds, failures, hits,
                 annotated>>
  /\ UNCHANGED <<graphVars, filterVars, rateVars, entityVars, enrichVars,
                 classifyVars, extraVars>>

\* One batch of batchResolveAddresses settles; the batches follow one
\* another. The batch is followed through the address that takes longest:
\* outcomes is what the sources do for it. A getEntityInfo that rejects
\* makes the batch's Promise.all reject, and the batch is then dropped.
ResolveBatch ==
  /\ stage = "processing"
  /\ rounds < MaxBatches
  /\ ~TimerDue
  /\ \E outcomes \in SourceOutcomes :
       LET r == trySources(OtherAddress, outcomes, 1)
           finds == \E i \in 1..Len(Sources) : outcomes[i] = "found"
       IN /\ elapsed + r.seconds - raceStart <= ProcessingTimeout
          /\ elapsed' = elapsed + r.seconds
          /\ failures' = failures + (IF r.failures > 0 THEN 1 ELSE 0)
          /\ hits' = hits + (IF finds THEN 1 ELSE 0)
          /\ annotated' = annotated +
               (IF ~r.threw /\ r.entity # NullEntity THEN 1 ELSE 0)
  /\ rounds' = rounds + 1
  /\ UNCHANGED <<apiKey, stage, raceStart, timer, caught, res>>
  /\ UNCHANGED <<graphVars, filterVars, rateVars, entityVars, enrichVars,
                 classifyVars, extraVars>>

\* the getTokenMetadata calls of processTransactions settle (they run side
\* by side and are followed through the mint that takes longest); a call
\* that rejects is left to Promise.allSettled
ResolveMints ==
  /\ stage = "processing"
  /\ rounds <= MaxBatches
  /\ ~TimerDue
  /\ \E outcome \in Outcomes :
       LET r == tryTokenMetadata(outcome)
       IN /\ elapsed + r.seconds - raceStart <= ProcessingTimeout
          /\ elapsed' = elapsed + r.seconds
          /\ failures' = failures + (IF r.failed THEN 1 ELSE 0)
          /\ hits' = hits + (IF outcome = "found" THEN 1 ELSE 0)
          /\ annotated' = annotated + (IF ~r.threw /\ r.found THEN 1 ELSE 0)
  /\ rounds' = MaxBatches + 1
  /\ UNCHANGED <<apiKey, stage, raceStart, timer, caught, res>>
  /\ UNCHANGED <<graphVars, filterVars, rateVars, entityVars, enrichVars,
                 classifyVars, extraVars>>

\* processTransactions resolves and wins the race; enhanceTokenMetadata is
\* called
ProcessReturns ==
  /\ stage = "processing"
  /\ ~TimerDue
  /\ stage' = "enhancing"
  /\ UNCHANGED <<apiKey, elapsed, raceStart, timer, rounds, failures, hits,
                 annotated, caught, res>>
  /\ UNCHANGED <<graphVars, filterVars, rateVars, entityVars, enrichVars,
                 classifyVars, extraVars>>

\* the setTimeout of the race fires: it rejects the race if the race is
\* still undecided, and has no effect otherwise
TimerFires ==
  /\ TimerDue
  /\ stage \in {"processing", "enhancing"}
  /\ timer' = "fired"
  /\ IF stage = "processing"
     THEN Catch(ProcessingTimeoutError)
     ELSE UNCHANGED <<caught, res, stage>>
  /\ UNCHANGED <<apiKey, elapsed, raceStart, rounds, failures, hits,
                 annotated>>
  /\ UNCHANGED <<graphVars, filterVars, rateVars, entityVars, enrichVars,
                 classifyVars, extraVars>>

\* a token-metadata lookup of enhanceTokenMetadata has filled in a symbol
Annotate ==
  /\ stage = "enhancing"
  /\ annotated < MaxAnnotated
  /\ annotated' = annotated + 1
  /\ hits' = hits + 1
  /\ UNCHANGED <<apiKey, stage, elapsed, raceStart, timer, rounds, failures,
                 caught, res>>
  /\ UNCHANGED <<graphVars, filterVars, rateVars, entityVars, enrichVars,
                 classifyVars, extraVars>>

\* enhanceTokenMetadata resolves and the handler answers 200
EnhanceReturns ==
  /\ stage = "enhancing"
  /\ stage' = "responded"
  /\ res' = successResponse(annotated)
  /\ UNCHANGED <<apiKey, elapsed, raceStart, timer, rounds, failures, hits,
                 annotated, caught>>
  /\ UNCHANGED <<graphVars, filterVars, rateVars, entityVars, enrichVars,
                 classifyVars, extraVars>>

HandlerNext ==
  \/ CheckApiKey \/ Wait \/ FetchReturns \/ FetchFails \/ FetchTimesOut
  \/ ProcessThrows \/ ResolveBatch \/ ResolveMints \/ ProcessReturns
  \/ TimerFires \/ Annotate \/ EnhanceReturns

HandlerSpec == HandlerInit /\ [][HandlerNext]_vars

\* ------------------------------------------------------ entity resolution
\* a fresh EntityIdentifier; the external cache holds what earlier processes
\* have left in it
EntityInit ==
  /\ GraphInit
  /\ FilterIdle
  /\ RateIdle
  /\ HandlerIdle
  /\ EnrichIdle
  /\ ClassifyIdle
  /\ ExtraIdle
  /\ redisUrl \in BOOLEAN
  /\ entityCache = NoEntries
  /\ entityStore \in
       { s \in [EntityAddresses -> {NullEntity,
                                    findKnownEntity(RegistryAddress),
                                    FoundBy("solscan", OtherAddress)}] :
           /\ s[NoAddress] = NullEntity
           /\ s[RegistryAddress] \in {NullEntity,
                                      findKnownEntity(RegistryAddress)}
           /\ s[OtherAddress] \in {NullEntity,
                                   FoundBy("solscan", OtherAddress)}
           /\ ~redisUrl => s = NoEntries }
  /\ resolved = [a \in EntityAddresses |-> << >>]

\* one call of getEntityInfo(address), from the call to its return
ResolveEntity ==
  \E address \in EntityAddresses,
     getOk \in (IF redisUrl THEN BOOLEAN ELSE {TRUE}),
     setOk \in (IF redisUrl THEN BOOLEAN ELSE {TRUE}) :
   \E outcomes \in (IF address = OtherAddress THEN SourceOutcomes
                    ELSE {NoOutcomes}) :
    /\ Len(resolved[address]) < MaxResolutions
    /\ LET r == getEntityInfo(address, entityCache, entityStore, redisUrl,
                              getOk, setOk, outcomes)
       IN /\ entityCache' = r.cache
          /\ entityStore' = r.store
          /\ resolved' = [resolved EXCEPT ![address] =
                            Append(@, [entity |-> r.entity, calls |-> r.calls])]
    /\ UNCHANGED redisUrl
    /\ UNCHANGED <<graphVars, filterVars, rateVars, handlerVars, enrichVars,
                 classifyVars, extraVars>>

\* the 24 hours of an entry of the external cache are over
ExpireEntry ==
  \E address \in EntityAddresses :
    /\ entityStore[address] # NullEntity
    /\ entityStore' = [entityStore EXCEPT ![address] = NullEntity]
    /\ UNCHANGED <<redisUrl, entityCache, resolved>>
    /\ UNCHANGED <<graphVars, filterVars, rateVars, handlerVars, enrichVars,
                 classifyVars, extraVars>>

EntityNext == ResolveEntity \/ ExpireEntry

EntitySpec == EntityInit /\ [][EntityNext]_vars

\* --------------------------------------------------- token-metadata cache
\* the edges processTransactions returned, the answers of the endpoint (both
\* stay as they are), and a cache that earlier requests have not filled
EnrichInit ==
  /\ GraphInit
  /\ FilterIdle
  /\ RateIdle
  /\ HandlerIdle
  /\ EntityIdle
  /\ ClassifyIdle
  /\ ExtraIdle
  /\ enrichEdges \in SeqsUpTo(TokenEdges, MaxEnrichEdges) \ {<< >>}
  /\ upstream \in UpstreamAnswers
  /\ tokenCache = NoRecord
  /\ runs = << >>

\* one run of enhanceTokenMetadata on the edges; getOk and setOk tell whether
\* the gets and the setex of the cache go through
EnhanceRun ==
  /\ Len(runs) < MaxRuns
  /\ \E getOk \in BOOLEAN, setOk \in BOOLEAN :
       LET record == IF getOk THEN tokenCache ELSE NoRecord
           r == enhanceTokenMetadata(enrichEdges, enrichEdges[1].mint,
                                     record, upstream)
       IN /\ runs' = Append(runs, r.edges)
          /\ tokenCache' = IF setOk /\ r.set.present THEN r.set
                           ELSE tokenCache
  /\ UNCHANGED <<enrichEdges, upstream>>
  /\ UNCHANGED <<graphVars, filterVars, rateVars, handlerVars, entityVars,
                 classifyVars, extraVars>>

\* the 24 hours of the record are over
ExpireRecord ==
  /\ tokenCache.present
  /\ tokenCache' = NoRecord
  /\ UNCHANGED <<enrichEdges, upstream, runs>>
  /\ UNCHANGED <<graphVars, filterVars, rateVars, handlerVars, entityVars,
                 classifyVars, extraVars>>

EnrichNext == EnhanceRun \/ ExpireRecord

EnrichSpec == EnrichInit /\ [][EnrichNext]_vars

\* ------------------------------------------------- the type of an edge
\* a transfer from the queried wallet to B, in tokenTransfers or in
\* nativeTransfers; a token transfer may come with a uiTokenAmount
ClassifyInputs ==
  [list : {"token"}, amount : 0..MaxAmount, uiAmount : 0..MaxAmount]
  \cup [list : {"native"}, amount : 0..MaxAmount, uiAmount : {NoUiAmount}]

ClassifyInit ==
  /\ GraphInit
  /\ FilterIdle
  /\ RateIdle
  /\ HandlerIdle
  /\ EntityIdle
  /\ EnrichIdle
  /\ ExtraIdle
  /\ classifyInput \in ClassifyInputs
  /\ classifyEdges = << >>

\* the transaction that holds the transfer and nothing else
ClassifyTx(x) ==
  IF x.list = "token"
  THEN [NoTx EXCEPT !.tokenTransfers =
          << [fromUserAccount |-> W, toUserAccount |-> B,
              tokenAmount |-> x.amount, uiAmount |-> x.uiAmount,
              mint |-> "M", tokenSymbol |-> Undefined] >>]
  ELSE [NoTx EXCEPT !.nativeTransfers =
          << [fromUserAccount |-> W, toUserAccount |-> B,
              amount |-> x.amount] >>]

\* processTransactions visits the transaction
Classify ==
  /\ classifyEdges = << >>
  /\ classifyEdges' =
       processTx(ClassifyTx(classifyInput), 0,
                 [nodes |-> <<InputNode(W)>>, edges |-> << >>], W).edges
  /\ UNCHANGED classifyInput
  /\ UNCHANGED <<graphVars, filterVars, rateVars, handlerVars, entityVars,
                 enrichVars, extraVars>>

ClassifyNext == Classify

ClassifySpec == ClassifyInit /\ [][ClassifyNext]_vars

\* --------------------------------- the handler from the request to the graph
HandlerQuiet ==
  /\ stage = "start"
  /\ elapsed = 0
  /\ raceStart = 0
  /\ timer = "unset"
  /\ rounds = 0
  /\ failures = 0
  /\ hits = 0
  /\ annotated = 0
  /\ caught = NoError
  /\ res = NoResponse

IntakeInit ==
  /\ GraphInit /\ FilterIdle /\ RateIdle
  /\ apiKey \in BOOLEAN
  /\ HandlerQuiet
  /\ EntityIdle /\ EnrichIdle /\ ClassifyIdle /\ LifeIdle /\ BatchIdle
  /\ TokenIdle /\ LateIdle
  /\ req \in Requests
  /\ step = "received"
  /\ order = << >>
  /\ limitWindow \in {NoWindow,
                      [open |-> TRUE, windowStart |-> 0, count |-> RateLimit]}
  /\ limitCalls = 0
  /\ upstreamCalls = << >>
  /\ reply = NoReply

IntakeFrame ==
  UNCHANGED <<graphVars, filterVars, rateVars, handlerVars, entityVars,
              enrichVars, classifyVars, lifeVars, batchVars, tokenVars,
              lateVars>>

\* from the security headers to the call of checkRateLimit
Receive ==
  /\ step = "received"
  /\ IF req.large
     THEN /\ reply' = Reply(413, TooLargeText)
          /\ step' = "responded"
          /\ UNCHANGED <<order, limitWindow, limitCalls>>
     ELSE IF req.method = "OPTIONS"
     THEN /\ reply' = Reply(200, "")
          /\ step' = "responded"
          /\ UNCHANGED <<order, limitWindow, limitCalls>>
     ELSE IF req.method # "POST"
     THEN /\ reply' = Reply(405, MethodText)
          /\ step' = "responded"
          /\ UNCHANGED <<order, limitWindow, limitCalls>>
     ELSE LET r == checkRateLimit("ip1", limitWindow, clock, ratelimit, FALSE)
          IN /\ limitWindow' = r.window
             /\ limitCalls' = limitCalls + 1
             /\ order' = Append(order, "rate-limit")
             /\ IF r.success
                THEN step' = "limited" /\ reply' = reply
                ELSE step' = "responded" /\ reply' = Reply(429, RateText)
  /\ UNCHANGED <<req, upstreamCalls>>
  /\ IntakeFrame

\* checkRateLimit has let the request through: the validation of the try
\* block, then the axios.get
Validate ==
  /\ step = "limited"
  /\ LET v == validation(req, apiKey)
     IN /\ order' = Append(order, "validate")
        /\ IF v.reply.status # 0
           THEN /\ reply' = v.reply
                /\ step' = "responded"
                /\ upstreamCalls' = upstreamCalls
           ELSE /\ reply' = reply
                /\ step' = "fetching"
                /\ upstreamCalls' = Append(upstreamCalls,
                     [address |-> v.clean,
                      limit |-> getLimitForTimeRange(req.timeRange)])
  /\ UNCHANGED <<req, limitWindow, limitCalls>>
  /\ IntakeFrame

\* the axios.get has returned: the time filter, processTransactions on the
\* cleaned address, and the 200
Ingested ==
  /\ step = "fetching"
  /\ \E data \in SeqsUpTo(IntakeTimestamps, MaxIngested) :
       LET kept == filterByRange(data, req.timeRange)
       IN reply' = [status |-> 200, error |-> "",
                    inputNode |-> InputNode(upstreamCalls[1].address).id,
                    kept |-> Len(kept)]
  /\ order' = order \o <<"ingest", "time-filter", "build graph">>
  /\ step' = "responded"
  /\ UNCHANGED <<req, limitWindow, limitCalls, upstreamCalls>>
  /\ IntakeFrame

IntakeNext == Receive \/ Validate \/ Ingested

IntakeSpec == IntakeInit /\ [][IntakeNext]_vars

\* ------------------ the entity caches over time and across processes
\* the entries of the external cache that have not yet expired
liveStore(store, at, t) ==
  [a \in EntityAddresses |->
     IF store[a] # NullEntity /\ t < at[a] + EntityTtl
     THEN store[a] ELSE NullEntity]

\* what the sources do in the resolutions that are followed over time
LifeOutcomes(address) ==
  IF address = OtherAddress
  THEN {NoOutcomes,
        [i \in 1..Len(Sources) |-> IF Sources[i] = "solscan" THEN "found"
                                   ELSE "none"],
        [i \in 1..Len(Sources) |-> IF Sources[i] = "jupiter" THEN "found"
                                   ELSE "throws"]}
  ELSE {NoOutcomes}

LifeInit ==
  /\ GraphInit /\ FilterIdle /\ RateIdle
  /\ HandlerIdle /\ EnrichIdle /\ ClassifyIdle /\ IntakeIdle /\ BatchIdle
  /\ TokenIdle /\ LateIdle
  /\ redisUrl \in BOOLEAN
  /\ entityCache = NoEntries
  /\ entityStore = NoEntries
  /\ resolved = [a \in EntityAddresses |-> << >>]
  /\ today = 0
  /\ cachedAt = [a \in EntityAddresses |-> 0]
  /\ storedAt = [a \in EntityAddresses |-> 0]
  /\ lastGet = "none"
  /\ lastSet = "none"

LifeFrame ==
  UNCHANGED <<graphVars, filterVars, rateVars, handlerVars, enrichVars,
              classifyVars, intakeVars, batchVars, tokenVars, lateVars>>

\* one call of getEntityInfo(address) at the present time
LifeResolve ==
  \E address \in {RegistryAddress, OtherAddress},
     getOk \in (IF redisUrl THEN BOOLEAN ELSE {TRUE}),
     setOk \in (IF redisUrl THEN BOOLEAN ELSE {TRUE}) :
   \E outcomes \in LifeOutcomes(address) :
    /\ Len(resolved[address]) < MaxResolutions
    /\ LET live == liveStore(entityStore, storedAt, today)
           r == getEntityInfo(address, entityCache, live, redisUrl,
                              getOk, setOk, outcomes)
           gets == \E i \in 1..Len(r.calls) : r.calls[i] = "redis.get"
           sets == \E i \in 1..Len(r.calls) : r.calls[i] = "redis.setex"
       IN /\ entityCache' = r.cache
          /\ entityStore' = r.store
          /\ resolved' = [resolved EXCEPT ![address] =
                            Append(@, [entity |-> r.entity, calls |-> r.calls])]
          /\ cachedAt' = IF r.cache[address] # entityCache[address]
                         THEN [cachedAt EXCEPT ![address] = today] ELSE cachedAt
          /\ storedAt' = IF sets /\ setOk
                         THEN [storedAt EXCEPT ![address] = today] ELSE storedAt
          /\ lastGet' = IF ~gets THEN "none"
                        ELSE IF ~getOk THEN "failed"
                        ELSE IF live[address] # NullEntity THEN "hit"
                        ELSE "miss"
          /\ lastSet' = IF ~sets THEN "none"
                        ELSE IF setOk THEN "ok" ELSE "failed"
    /\ UNCHANGED <<redisUrl, today>>
    /\ LifeFrame

\* the process ends and a new one starts: new EntityIdentifier()
Restart ==
  /\ entityCache # NoEntries
  /\ entityCache' = NoEntries
  /\ cachedAt' = [a \in EntityAddresses |-> 0]
  /\ lastGet' = "none"
  /\ lastSet' = "none"
  /\ UNCHANGED <<redisUrl, entityStore, resolved, today, storedAt>>
  /\ LifeFrame

\* time passes
Pass ==
  /\ today + LifeTick <= MaxLife
  /\ today' = today + LifeTick
  /\ UNCHANGED <<redisUrl, entityCache, entityStore, resolved, cachedAt,
                 storedAt, lastGet, lastSet>>
  /\ LifeFrame

LifeNext == LifeResolve \/ Restart \/ Pass

LifeSpec == LifeInit /\ [][LifeNext]_vars

\* ----------------------------------- batchResolveAddresses, step by step
BatchInit ==
  /\ FilterIdle /\ RateIdle
  /\ HandlerIdle /\ EntityIdle /\ EnrichIdle /\ ClassifyIdle
  /\ IntakeIdle /\ LifeIdle /\ TokenIdle /\ LateIdle
  /\ GraphInit
  /\ resolverFile \in ResolverFiles
  /\ chainLength \in 0..MaxChain
  /\ systemAt \in {0, 1}
  /\ failing \in SUBSET {"w2", "w11"}
  /\ phase = "collect"
  /\ filteredAddresses = << >>
  /\ cursor = 0
  /\ inFlight = {}
  /\ batchResults = {}
  /\ submitted = << >>
  /\ groups = 0
  /\ results = {}

OthersFrame ==
  UNCHANGED <<filterVars, rateVars, handlerVars, entityVars, enrichVars,
              classifyVars, intakeVars, lifeVars, tokenVars, lateVars>>

BatchFrame == OthersFrame /\ UNCHANGED graphVars

\* one iteration of transactions.forEach on the chain
VisitTx ==
  /\ phase = "collect"
  /\ index < chainLength
  /\ LET t == ChainTx(index + 1, systemAt)
         g == processTx(t, index, [nodes |-> nodes, edges |-> edges],
                        inputAddress)
     IN /\ tx' = t
        /\ nodes' = g.nodes
        /\ edges' = g.edges
        /\ hasTransfers' = (hasTransfers \/ ~skipsTx(t))
        /\ used' = used + NumTransfers(t)
  /\ index' = index + 1
  /\ UNCHANGED <<inputAddress, pc, result, response, entityLookups,
                 tokenLookups, cacheGets>>
  /\ UNCHANGED batchVars
  /\ OthersFrame

\* const batch = filteredAddresses.slice(i, i + batchSize);
\* const batchPromises = batch.map(address => this.getEntityInfo(address));
Launch(addresses, i) ==
  LET batch == slice(addresses, i, i + BatchSize)
  IN /\ inFlight' = Range(batch)
     /\ batchResults' = {}
     /\ submitted' = submitted \o batch
     /\ groups' = groups + 1
     /\ cursor' = i

\* processTransactions collects the addresses of the edges and calls
\* batchResolveAddresses, which filters them and starts the first batch
StartBatches ==
  /\ phase = "collect"
  /\ resolverFile = BatchedCopy
  /\ index = chainLength
  /\ LET uniqueAddresses == uniqueAddressesOf(edges, 1, << >>)
         filtered == IF hasTransfers
                     THEN filterSystemAccounts(uniqueAddresses) ELSE << >>
     IN /\ filteredAddresses' = filtered
        /\ IF Len(filtered) = 0
           THEN /\ phase' = "returned"
                /\ UNCHANGED <<cursor, inFlight, batchResults, submitted,
                               groups>>
           ELSE /\ phase' = "batch"
                /\ Launch(filtered, 0)
  /\ UNCHANGED <<resolverFile, chainLength, systemAt, failing, results>>
  /\ BatchFrame

\* one getEntityInfo of the batch returns: an entity, or null when its
\* lookups have failed
Settle ==
  /\ phase = "batch"
  /\ \E address \in inFlight :
       /\ inFlight' = inFlight \ {address}
       /\ batchResults' = IF address \in failing THEN batchResults
                          ELSE batchResults \cup {address}
  /\ UNCHANGED <<resolverFile, chainLength, systemAt, failing, phase, filteredAddresses,
                 cursor, submitted,
                 groups, results>>
  /\ BatchFrame

\* Promise.all(batchPromises) has resolved: the results are recorded and the
\* loop goes on with the next batch, or returns
BatchDone ==
  /\ phase = "batch"
  /\ inFlight = {}
  /\ results' = results \cup batchResults
  /\ IF cursor + BatchSize < Len(filteredAddresses)
     THEN /\ Launch(filteredAddresses, cursor + BatchSize)
          /\ phase' = phase
     ELSE /\ phase' = "returned"
          /\ UNCHANGED <<cursor, inFlight, batchResults, submitted, groups>>
  /\ UNCHANGED <<resolverFile, chainLength, systemAt, failing, filteredAddresses>>
  /\ BatchFrame

\* batchResolveAddresses of lib/entity-identifier.js: addresses.map starts
\* one lookup per address, all at once
ResolveAll ==
  /\ phase = "collect"
  /\ resolverFile = LibCopy
  /\ index = chainLength
  /\ LET uniqueAddresses == IF hasTransfers
                            THEN uniqueAddressesOf(edges, 1, << >>)
                            ELSE << >>
     IN /\ filteredAddresses' = uniqueAddresses
        /\ submitted' = uniqueAddresses
        /\ inFlight' = Range(uniqueAddresses)
        /\ groups' = IF Len(uniqueAddresses) = 0 THEN 0 ELSE 1
  /\ phase' = "allSettled"
  /\ UNCHANGED <<resolverFile, chainLength, systemAt, failing, cursor,
                 batchResults, results>>
  /\ BatchFrame

\* one promise of the map settles: the entity is recorded unless it is null
SettleOne ==
  /\ phase = "allSettled"
  /\ \E address \in inFlight :
       /\ inFlight' = inFlight \ {address}
       /\ results' = IF address \in failing THEN results
                     ELSE results \cup {address}
  /\ UNCHANGED <<resolverFile, chainLength, systemAt, failing, phase,
                 filteredAddresses, cursor, batchResults, submitted, groups>>
  /\ BatchFrame

\* Promise.allSettled(promises) has resolved
AllSettled ==
  /\ phase = "allSettled"
  /\ inFlight = {}
  /\ phase' = "returned"
  /\ UNCHANGED <<resolverFile, chainLength, systemAt, failing,
                 filteredAddresses, cursor, inFlight, batchResults,
                 submitted, groups, results>>
  /\ BatchFrame

BatchNext ==
  \/ VisitTx
  \/ StartBatches \/ Settle \/ BatchDone
  \/ ResolveAll \/ SettleOne \/ AllSettled

BatchSpec == BatchInit /\ [][BatchNext]_vars

\* ------------------------------------ the token lookups of one request
\* the mints on the edges of the graph, in the order of their first edge
MintsUpTo(n) == [k \in 1..n |-> "m" \o ToString(k)]

\* a token-metadata call with its answer
TokenCall(kind, mintAccounts, ok) ==
  [kind |-> kind, mintAccounts |-> mintAccounts, ok |-> ok]

\* the fallback visits only the first mint of the batch
retryList_firstOnly(batch) == SubSeq(batch, 1, 1)

\* for (const mint of batch)
retryList(batch) == batch

TokenInit ==
  /\ GraphInit
  /\ FilterIdle /\ RateIdle
  /\ HandlerIdle /\ EntityIdle /\ EnrichIdle /\ ClassifyIdle
  /\ IntakeIdle /\ LifeIdle /\ BatchIdle /\ LateIdle
  /\ \E n \in 0..MaxMints : mintList = MintsUpTo(n)
  /\ lookupFails \in SUBSET {"m1"}
  /\ cacheHits \in SUBSET {"m2"}
  /\ tokenStage = "edges"
  /\ mintLookups = {}
  /\ metadataFound = {}
  /\ tokenMints = << >>
  /\ tokenCursor = 0
  /\ tokenBatch = << >>
  /\ callMints = << >>
  /\ fallbackAt = 0
  /\ tokenCalls = << >>
  /\ resolvedMints = {}

TokenFrame ==
  UNCHANGED <<graphVars, filterVars, rateVars, handlerVars, entityVars,
              enrichVars, classifyVars, intakeVars, lifeVars, batchVars,
              lateVars>>

\* processTransactions: one getTokenMetadata per unique mint, all started by
\* Array.from(uniqueMints).map
StartMintLookups ==
  /\ tokenStage = "edges"
  /\ mintLookups' = Range(mintList)
  /\ tokenStage' = "allSettled"
  /\ UNCHANGED <<mintList, lookupFails, cacheHits, metadataFound, tokenMints,
                 tokenCursor, tokenBatch, callMints, fallbackAt, tokenCalls,
                 resolvedMints>>
  /\ TokenFrame

\* one getTokenMetadata returns: metadata, or null
MintLookupSettles ==
  /\ tokenStage = "allSettled"
  /\ \E mint \in mintLookups :
       /\ mintLookups' = mintLookups \ {mint}
       /\ metadataFound' = IF mint \in lookupFails THEN metadataFound
                           ELSE metadataFound \cup {mint}
  /\ UNCHANGED <<mintList, lookupFails, cacheHits, tokenStage, tokenMints,
                 tokenCursor, tokenBatch, callMints, fallbackAt, tokenCalls,
                 resolvedMints>>
  /\ TokenFrame

\* Promise.allSettled(mintPromises) has resolved and processTransactions
\* returns; enhanceTokenMetadata asks the cache for every mint whose edges
\* have no symbol and collects the mints the cache does not have
CacheChecks ==
  /\ tokenStage = "allSettled"
  /\ mintLookups = {}
  /\ LET unknownTokens == SelectSeq(mintList, LAMBDA m : m \notin cacheHits)
     IN /\ tokenMints' = unknownTokens
        /\ tokenStage' = IF Len(unknownTokens) > 0 THEN "loop" ELSE "done"
  /\ resolvedMints' = Range(mintList) \cap cacheHits
  /\ UNCHANGED <<mintList, lookupFails, cacheHits, mintLookups, metadataFound,
                 tokenCursor, tokenBatch, callMints, fallbackAt, tokenCalls>>
  /\ TokenFrame

\* the end of one pass of the for loop over tokenMints
nextPass(i) ==
  /\ tokenCursor' = i + TokenBatchSize
  /\ tokenStage' = IF i + TokenBatchSize < Len(tokenMints) THEN "loop"
                   ELSE "done"

\* one pass of the loop begins: the batch is cut and the batch call made
BatchCall ==
  /\ tokenStage = "loop"
  /\ LET batch == slice(tokenMints, tokenCursor, tokenCursor + TokenBatchSize)
     IN /\ tokenBatch' = batch
        /\ callMints' = batch
  /\ tokenStage' = "batchCall"
  /\ UNCHANGED <<mintList, lookupFails, cacheHits, mintLookups, metadataFound,
                 tokenMints, tokenCursor, fallbackAt, tokenCalls,
                 resolvedMints>>
  /\ TokenFrame

\* the batch call is answered with the metadata of its mints, or it throws
\* and the catch block starts the fallback
BatchAnswer ==
  /\ tokenStage = "batchCall"
  /\ \E ok \in BOOLEAN :
       /\ tokenCalls' = Append(tokenCalls, TokenCall("batch", callMints, ok))
       /\ IF ok
          THEN /\ resolvedMints' = resolvedMints \cup Range(callMints)
               /\ nextPass(tokenCursor)
               /\ UNCHANGED fallbackAt
          ELSE /\ tokenStage' = "fallback"
               /\ fallbackAt' = 1
               /\ UNCHANGED <<resolvedMints, tokenCursor>>
  /\ callMints' = << >>
  /\ UNCHANGED <<mintList, lookupFails, cacheHits, mintLookups, metadataFound,
                 tokenMints, tokenBatch>>
  /\ TokenFrame

\* the fallback makes the call for the next mint of the batch
IndividualCall ==
  /\ tokenStage = "fallback"
  /\ callMints = << >>
  /\ fallbackAt <= Len(retryList(tokenBatch))
  /\ callMints' = <<retryList(tokenBatch)[fallbackAt]>>
  /\ UNCHANGED <<mintList, lookupFails, cacheHits, tokenStage, mintLookups,
                 metadataFound, tokenMints, tokenCursor, tokenBatch,
                 fallbackAt, tokenCalls, resolvedMints>>
  /\ TokenFrame

\* the individual call is answered, or it throws and the inner catch logs it
IndividualAnswer ==
  /\ tokenStage = "fallback"
  /\ callMints # << >>
  /\ \E ok \in BOOLEAN :
       /\ tokenCalls' =
            Append(tokenCalls, TokenCall("individual", callMints, ok))
       /\ resolvedMints' = IF ok THEN resolvedMints \cup Range(callMints)
                           ELSE resolvedMints
  /\ callMints' = << >>
  /\ fallbackAt' = fallbackAt + 1
  /\ IF fallbackAt + 1 > Len(retryList(tokenBatch))
     THEN nextPass(tokenCursor)
     ELSE UNCHANGED <<tokenStage, tokenCursor>>
  /\ UNCHANGED <<mintList, lookupFails, cacheHits, mintLookups, metadataFound,
                 tokenMints, tokenBatch>>
  /\ TokenFrame

TokenNext ==
  \/ StartMintLookups \/ MintLookupSettles \/ CacheChecks
  \/ BatchCall \/ BatchAnswer \/ IndividualCall \/ IndividualAnswer

TokenSpec == TokenInit /\ [][TokenNext]_vars

\* ------------------------------------------------- the fetch limits
\* the widths of the windows asked for, in units of 10000 seconds: none, and
\* the widths next to one, three, seven and fourteen days on either side
LimitWindows == {0, 8, 9, 25, 26, 60, 61, 120, 121}

\* timeRange objects that start at the same time, one with bounds that are
\* no timestamps, and no timeRange
LimitRanges ==
  {[kind |-> "object", start |-> [kind |-> "iso", time |-> 170000],
    end |-> [kind |-> "iso", time |-> 170000 + w]] : w \in LimitWindows}
  \cup {[kind |-> "object", start |-> GarbageBound, end |-> GarbageBound],
        NoRange}

LimitInit ==
  /\ GraphInit
  /\ FilterIdle /\ RateIdle
  /\ HandlerIdle /\ EntityIdle /\ EnrichIdle /\ ClassifyIdle
  /\ IntakeIdle /\ LifeIdle /\ BatchIdle /\ TokenIdle
  /\ ReplyIdle /\ ShareIdle
  /\ limitLog = << >>

\* a request with this timeRange builds the params of its upstream call
AskLimit ==
  /\ Len(limitLog) < MaxAsked
  /\ \E asked \in LimitRanges :
       limitLog' = Append(limitLog,
                          [timeRange |-> asked,
                           limit |-> getLimitForTimeRange(asked)])
  /\ UNCHANGED <<graphVars, filterVars, rateVars, handlerVars, entityVars,
                 enrichVars, classifyVars, intakeVars, lifeVars, batchVars,
                 tokenVars, replyVars, shareVars>>

LimitNext == AskLimit

LimitSpec == LimitInit /\ [][LimitNext]_vars

\* ------------------------------------------- the responses of a request
Routes == {"large", "OPTIONS", "GET", "POST"}

\* the rejection of the timer reaches the handler only while it awaits the
\* race
rejectsRace_always(where) == TRUE

rejectsRace(where) == where = "race"

\* a loop that does not move on to the next batch
batchesAfter_same(left) == left

\* i += batchSize: one batch less is left
batchesAfter(left) == left - 1

ReplyInit ==
  /\ GraphInit
  /\ FilterIdle /\ RateIdle
  /\ HandlerIdle /\ EntityIdle /\ EnrichIdle /\ ClassifyIdle
  /\ IntakeIdle /\ LifeIdle /\ BatchIdle /\ TokenIdle
  /\ LimitIdle /\ ShareIdle
  /\ route \in Routes
  /\ handlerAt = "headers"
  /\ work = "idle"
  /\ addressBatches = 0
  /\ entityLeft = 0
  /\ mintBatches = 0
  /\ tokenLeft = 0
  /\ fallbackLeft = 0
  /\ raceTimer = "unset"
  /\ sent = << >>

ReplyFrame ==
  UNCHANGED <<graphVars, filterVars, rateVars, handlerVars, entityVars,
              enrichVars, classifyVars, intakeVars, lifeVars, batchVars,
              tokenVars, limitVars, shareVars>>

\* return res.status(code)...
Send(code) ==
  /\ sent' = Append(sent, code)
  /\ handlerAt' = "returned"

\* the size check, the preflight and the method check
Headers ==
  /\ handlerAt = "headers"
  /\ IF route = "large" THEN Send(413)
     ELSE IF route = "OPTIONS" THEN Send(200)
     ELSE IF route # "POST" THEN Send(405)
     ELSE handlerAt' = "rateLimit" /\ sent' = sent
  /\ UNCHANGED <<route, addressBatches, mintBatches, work, entityLeft,
                 tokenLeft, fallbackLeft, raceTimer>>
  /\ ReplyFrame

\* await checkRateLimit(clientIP) returns
RateLimitReturns ==
  /\ handlerAt = "rateLimit"
  /\ \E success \in BOOLEAN :
       IF success THEN handlerAt' = "validate" /\ sent' = sent
       ELSE Send(429)
  /\ UNCHANGED <<route, addressBatches, mintBatches, work, entityLeft,
                 tokenLeft, fallbackLeft, raceTimer>>
  /\ ReplyFrame

\* the validation of the body and the check of the API key
Validates ==
  /\ handlerAt = "validate"
  /\ \E code \in {0, 400, 500} :
       IF code = 0 THEN handlerAt' = "fetch" /\ sent' = sent
       ELSE Send(code)
  /\ UNCHANGED <<route, addressBatches, mintBatches, work, entityLeft,
                 tokenLeft, fallbackLeft, raceTimer>>
  /\ ReplyFrame

\* the axios.get returns or times out: the catch block answers its failure;
\* its data are filtered and handed to processTransactions inside the race
Fetches ==
  /\ handlerAt = "fetch"
  /\ \/ /\ \E code \in {408, 429, 400, 500} : Send(code)
        /\ UNCHANGED <<work, addressBatches, entityLeft, raceTimer>>
     \/ /\ handlerAt' = "race"
        /\ sent' = sent
        /\ work' = "entities"
        /\ addressBatches' \in 0..MaxWork
        /\ entityLeft' = addressBatches'
        /\ raceTimer' = "armed"
  /\ UNCHANGED <<route, mintBatches, tokenLeft, fallbackLeft>>
  /\ ReplyFrame

\* one batch of batchResolveAddresses has settled, whatever its lookups did
EntityBatch ==
  /\ work = "entities"
  /\ entityLeft > 0
  /\ entityLeft' = batchesAfter(entityLeft)
  /\ UNCHANGED <<route, addressBatches, mintBatches, handlerAt, work,
                 tokenLeft, fallbackLeft, raceTimer, sent>>
  /\ ReplyFrame

\* batchResolveAddresses has returned and the mint lookups are started
MintLookups ==
  /\ work = "entities"
  /\ entityLeft = 0
  /\ work' = "mints"
  /\ UNCHANGED <<route, addressBatches, mintBatches, handlerAt, entityLeft,
                 tokenLeft, fallbackLeft, raceTimer, sent>>
  /\ ReplyFrame

\* Promise.allSettled(mintPromises) resolves and processTransactions returns
WorkSettles ==
  /\ work = "mints"
  /\ work' = "settled"
  /\ UNCHANGED <<route, addressBatches, mintBatches, handlerAt, entityLeft,
                 tokenLeft, fallbackLeft, raceTimer, sent>>
  /\ ReplyFrame

\* processTransactions throws
WorkThrows ==
  /\ work \in {"entities", "mints"}
  /\ work' = "threw"
  /\ UNCHANGED <<route, addressBatches, mintBatches, handlerAt, entityLeft,
                 tokenLeft, fallbackLeft, raceTimer, sent>>
  /\ ReplyFrame

\* the race settles with processTransactions: its result goes on to
\* enhanceTokenMetadata, its error to the catch block
RaceSettles ==
  /\ handlerAt = "race"
  /\ \/ /\ work = "settled"
        /\ handlerAt' = "enhance"
        /\ sent' = sent
        /\ mintBatches' \in 0..MaxWork
        /\ tokenLeft' = mintBatches'
     \/ /\ work = "threw"
        /\ Send(500)
        /\ UNCHANGED <<mintBatches, tokenLeft>>
  /\ UNCHANGED <<route, work, addressBatches, entityLeft, fallbackLeft,
                 raceTimer>>
  /\ ReplyFrame

\* the setTimeout of the race fires: it rejects its promise, which ends the
\* race if the race is still awaited; processTransactions is not stopped
TimerRejects ==
  /\ raceTimer = "armed"
  /\ raceTimer' = "fired"
  /\ IF rejectsRace(handlerAt) THEN Send(408)
     ELSE UNCHANGED <<handlerAt, sent>>
  /\ UNCHANGED <<route, addressBatches, mintBatches, work, entityLeft,
                 tokenLeft, fallbackLeft>>
  /\ ReplyFrame

\* the batch call of enhanceTokenMetadata returns, or fails and the mints of
\* the batch are retried one by one: a batch of one mint and a full batch
TokenBatch ==
  /\ handlerAt = "enhance"
  /\ tokenLeft > 0
  /\ fallbackLeft = 0
  /\ \E ok \in BOOLEAN :
       IF ok
       THEN tokenLeft' = batchesAfter(tokenLeft) /\ fallbackLeft' = 0
       ELSE tokenLeft' = tokenLeft /\ fallbackLeft' \in {1, TokenBatchSize}
  /\ UNCHANGED <<route, addressBatches, mintBatches, handlerAt, work,
                 entityLeft, raceTimer, sent>>
  /\ ReplyFrame

\* an individual call returns or fails; after the last one the loop goes on
TokenRetry ==
  /\ handlerAt = "enhance"
  /\ fallbackLeft > 0
  /\ fallbackLeft' = fallbackLeft - 1
  /\ tokenLeft' = IF fallbackLeft = 1 THEN batchesAfter(tokenLeft)
                  ELSE tokenLeft
  /\ UNCHANGED <<route, addressBatches, mintBatches, handlerAt, work,
                 entityLeft, raceTimer, sent>>
  /\ ReplyFrame

\* enhanceTokenMetadata returns and the handler answers 200, or the try
\* block throws on the way and the catch block answers
Responds ==
  /\ handlerAt = "enhance"
  /\ tokenLeft = 0
  /\ fallbackLeft = 0
  /\ \E code \in {200, 500} : Send(code)
  /\ UNCHANGED <<route, addressBatches, mintBatches, work, entityLeft,
                 tokenLeft, fallbackLeft, raceTimer>>
  /\ ReplyFrame

ReplyNext ==
  \/ Headers \/ RateLimitReturns \/ Validates \/ Fetches
  \/ EntityBatch \/ MintLookups \/ WorkSettles \/ WorkThrows
  \/ RaceSettles \/ TimerRejects
  \/ TokenBatch \/ TokenRetry \/ Responds

ReplySpec == ReplyInit /\ [][ReplyNext]_vars

\* every call that the handler awaits returns or times out, and the timer
\* fires when its time has come
ReplyLive ==
  /\ ReplySpec
  /\ WF_vars(Headers) /\ WF_vars(RateLimitReturns) /\ WF_vars(Validates)
  /\ WF_vars(Fetches)
  /\ WF_vars(EntityBatch) /\ WF_vars(MintLookups) /\ WF_vars(WorkSettles)
  /\ WF_vars(RaceSettles) /\ WF_vars(TimerRejects)
  /\ WF_vars(TokenBatch) /\ WF_vars(TokenRetry) /\ WF_vars(Responds)

\* ------------------------- concurrent resolutions on the singleton resolver
\* the calls of getEntityInfo(askedAddress) that requests in flight make on
\* the one EntityIdentifier; a call runs from one await to the next without
\* another call in between
Callers == 1..MaxCallers

\* a call that has not returned yet
Pending == [name |-> "pending", source |-> "pending"]

ShareInit ==
  /\ GraphInit
  /\ FilterIdle /\ RateIdle
  /\ HandlerIdle /\ EntityIdle /\ EnrichIdle /\ ClassifyIdle
  /\ IntakeIdle /\ LifeIdle /\ BatchIdle /\ TokenIdle
  /\ LimitIdle /\ ReplyIdle
  /\ askedAddress \in {RegistryAddress, OtherAddress}
  /\ sharedRedis \in BOOLEAN
  /\ sharedCache = NullEntity
  /\ cacheWrites = << >>
  /\ callStep = [c \in Callers |-> "start"]
  /\ callResult = [c \in Callers |-> Pending]

ShareFrame ==
  UNCHANGED <<graphVars, filterVars, rateVars, handlerVars, entityVars,
              enrichVars, classifyVars, intakeVars, lifeVars, batchVars,
              tokenVars, limitVars, replyVars>>

\* return entityInfo, after this.cache.set(address, entityInfo) if asked
Returns(c, entityInfo, set) ==
  /\ callStep' = [callStep EXCEPT ![c] = "returned"]
  /\ callResult' = [callResult EXCEPT ![c] = entityInfo]
  /\ IF set
     THEN /\ sharedCache' = entityInfo
          /\ cacheWrites' = Append(cacheWrites, entityInfo)
     ELSE UNCHANGED <<sharedCache, cacheWrites>>

\* the registry, and the call of the first source if it lists nothing
AfterCaches(c) ==
  IF findKnownEntity(askedAddress) # NullEntity
  THEN Returns(c, findKnownEntity(askedAddress), TRUE)
  ELSE /\ callStep' = [callStep EXCEPT ![c] = Sources[1]]
       /\ UNCHANGED <<sharedCache, cacheWrites, callResult>>

\* getEntityInfo is called: the look into this.cache, then the get of the
\* external cache if there is one
Begin ==
  \E c \in Callers :
    /\ callStep[c] = "start"
    /\ IF sharedCache # NullEntity THEN Returns(c, sharedCache, FALSE)
       ELSE IF sharedRedis
       THEN /\ callStep' = [callStep EXCEPT ![c] = "redis"]
            /\ UNCHANGED <<sharedCache, cacheWrites, callResult>>
       ELSE AfterCaches(c)
    /\ UNCHANGED <<askedAddress, sharedRedis>>
    /\ ShareFrame

\* the get of the external cache returns: nothing (or it failed), or what a
\* call before has handed to cacheEntityInfo
RedisReturns ==
  \E c \in Callers :
    /\ callStep[c] = "redis"
    /\ \E cached \in {NullEntity} \cup Range(cacheWrites) :
         IF cached # NullEntity THEN Returns(c, cached, TRUE)
         ELSE AfterCaches(c)
    /\ UNCHANGED <<askedAddress, sharedRedis>>
    /\ ShareFrame

\* the lookup of a source returns or fails: an entity found is set in
\* this.cache and returned, otherwise the next source is called, and null is
\* returned after the last
SourceReturns ==
  \E c \in Callers, i \in 1..Len(Sources), outcome \in Outcomes :
    /\ callStep[c] = Sources[i]
    /\ LET r == trySource(askedAddress, outcome, i)
       IN IF r.entity # NullEntity THEN Returns(c, r.entity, TRUE)
          ELSE IF i = Len(Sources) THEN Returns(c, NullEntity, FALSE)
          ELSE /\ callStep' = [callStep EXCEPT ![c] = Sources[i + 1]]
               /\ UNCHANGED <<sharedCache, cacheWrites, callResult>>
    /\ UNCHANGED <<askedAddress, sharedRedis>>
    /\ ShareFrame

ShareNext == Begin \/ RedisReturns \/ SourceReturns

ShareSpec == ShareInit /\ [][ShareNext]_vars

\* ======================================================== graph properties
NodeIds(ns) == {ns[i].id : i \in 1..Len(ns)}

Returned == pc \in {"processed", "done"}   \* processTransactions has returned
Answered == pc = "done"                     \* the response has been sent

\* what the specification calls a direct / an incidental transfer
IsDirect(transfer) ==
  transfer.fromUserAccount = inputAddress \/ transfer.toUserAccount = inputAddress
IsIncidental(transfer, t) ==
  ~IsDirect(transfer) /\ \E i \in 1..Len(t.accountData) : t.accountData[i] = inputAddress
BothEndpoints(transfer) ==
  Truthy(transfer.fromUserAccount) /\ Truthy(transfer.toUserAccount)

\* the edge list holds an edge of the given kinds for transfer number i
\* (1-based) of transaction number n (0-based)
HasEdgeFor(es, transfer, n, i, kinds) ==
  \E k \in 1..Len(es) :
    /\ es[k].id = EdgeId(transfer.fromUserAccount, transfer.toUserAccount, n, i - 1)
    /\ es[k].source = transfer.fromUserAccount
    /\ es[k].target = transfer.toUserAccount
    /\ es[k].type \in kinds

TokenKinds  == {"NFT", "SPL_TOKEN"}
NativeKinds == {"SOL"}

\* C1: every edge of the result of processTransactions, and of the response,
\* has its source and its target among the ids of the nodes returned with it.
C1_ReferentialIntegrity ==
  /\ Returned =>
       \A i \in 1..Len(result.edges) :
         /\ result.edges[i].source \in NodeIds(result.nodes)
         /\ result.edges[i].target \in NodeIds(result.nodes)
  /\ Answered =>
       \A i \in 1..Len(response.edges) :
         /\ response.edges[i].source \in NodeIds(response.nodes)
         /\ response.edges[i].target \in NodeIds(response.nodes)

\* an incidental edge between two wallets other than the queried one
C1_Witness ==
  /\ Answered
  /\ \E i \in 1..Len(response.edges) :
       /\ response.edges[i].source # inputAddress
       /\ response.edges[i].target # inputAddress
  /\ Len(response.nodes) >= 3

\* C2: no two edges of one result share an id, also when a transaction
\* carries a token list and a native list with the same endpoints at the same
\* position.
C2_EdgeIdsUnique ==
  Returned =>
    \A i, j \in 1..Len(result.edges) :
      i # j => result.edges[i].id # result.edges[j].id

\* two edges between the same endpoints that come from one transaction, so
\* that their ids differ in the transfer index only
C2_Witness ==
  /\ Returned
  /\ index = 1
  /\ \E i, j \in 1..Len(result.edges) :
       /\ i # j
       /\ result.edges[i].source = result.edges[j].source
       /\ result.edges[i].target = result.edges[j].target

OneInputNode(ns) ==
  /\ Cardinality({i \in 1..Len(ns) : ns[i].type = "input"}) = 1
  /\ \A i \in 1..Len(ns) :
       /\ ns[i].type = "input" => ns[i].id = inputAddress
       /\ ns[i].type # "input" => ns[i].type = "wallet"
  /\ \A i, j \in 1..Len(ns) : i # j => ns[i].id # ns[j].id

\* C3: a response has exactly one node of type 'input', its id is the queried
\* address, every other node has type 'wallet', and no two nodes share an id.
C3_ExactlyOneInputNode ==
  /\ Returned => OneInputNode(result.nodes)
  /\ Answered => OneInputNode(response.nodes)

\* the queried address was met as an endpoint and in accountData, next to
\* other wallets
C3_Witness ==
  /\ Answered
  /\ Len(response.nodes) >= 3
  /\ \E i \in 1..Len(tx.accountData) : tx.accountData[i] = inputAddress
  /\ \E i \in 1..Len(response.edges) :
       response.edges[i].source = inputAddress \/ response.edges[i].target = inputAddress

\* C4: on every edge of a response, isDirectTransfer and isRelatedTransfer are
\* never both true, and isDirectTransfer is true exactly when the queried
\* address is the source or the target of the edge.
C4_DirectIncidentalFlags ==
  Answered =>
    \A i \in 1..Len(response.edges) :
      LET e == response.edges[i]
      IN /\ ~(e.isDirectTransfer = JsTrue /\ e.isRelatedTransfer = JsTrue)
         /\ (e.isDirectTransfer = JsTrue) <=>
              (e.source = inputAddress \/ e.target = inputAddress)

\* C5: every recognized shape of a transaction is processed: each transfer
\* with both endpoints that has the queried address as an endpoint yields an
\* edge, whether it sits in tokenTransfers, in nativeTransfers or under the
\* alternate transfers key.
C5_AllShapesProcessed ==
  index > 0 =>
    /\ \A i \in 1..Len(tx.tokenTransfers) :
         IsDirect(tx.tokenTransfers[i]) /\ BothEndpoints(tx.tokenTransfers[i])
           => HasEdgeFor(edges, tx.tokenTransfers[i], index - 1, i, TokenKinds)
    /\ \A i \in 1..Len(tx.nativeTransfers) :
         IsDirect(tx.nativeTransfers[i]) /\ BothEndpoints(tx.nativeTransfers[i])
           => HasEdgeFor(edges, tx.nativeTransfers[i], index - 1, i, NativeKinds)
    /\ \A i \in 1..Len(tx.transfers) :
         IsDirect(tx.transfers[i]) /\ BothEndpoints(tx.transfers[i])
           => HasEdgeFor(edges, tx.transfers[i], index - 1, i,
                         TokenKinds \cup NativeKinds)

\* C6: a transfer with both endpoints, of the list the builder visits, gets
\* an edge if and only if it is direct or incidental, token and native alike.
C6_EdgeIffDirectOrIncidental ==
  index > 0 =>
    /\ \A i \in 1..Len(tx.tokenTransfers) :
         BothEndpoints(tx.tokenTransfers[i]) =>
           (HasEdgeFor(edges, tx.tokenTransfers[i], index - 1, i, TokenKinds)
              <=> (IsDirect(tx.tokenTransfers[i])
                     \/ IsIncidental(tx.tokenTransfers[i], tx)))
    /\ Len(tx.tokenTransfers) = 0 =>
         \A i \in 1..Len(tx.nativeTransfers) :
           BothEndpoints(tx.nativeTransfers[i]) =>
             (HasEdgeFor(edges, tx.nativeTransfers[i], index - 1, i, NativeKinds)
                <=> (IsDirect(tx.nativeTransfers[i])
                       \/ IsIncidental(tx.nativeTransfers[i], tx)))

\* C7: a response without edges has the input node as its only node, empty
\* entityInfo and tokenMetadata, and was built without any entity lookup,
\* token-metadata lookup or token-cache read.
C7_EmptyGraphShortCircuit ==
  (Answered /\ Len(response.edges) = 0) =>
    /\ Len(response.nodes) = 1
    /\ response.nodes[1].id = inputAddress
    /\ response.nodes[1].type = "input"
    /\ DOMAIN response.entityInfo = {}
    /\ DOMAIN response.tokenMetadata = {}
    /\ entityLookups = {}
    /\ tokenLookups = {}
    /\ cacheGets = {}

\* C8: visiting a transaction with neither a non-empty tokenTransfers nor a
\* non-empty nativeTransfers leaves the node map and the edge list unchanged,
\* whatever its accountData.
C8_NoShapeNoContribution ==
  [][ (pc = "forEach" /\ index' = index + 1
         /\ Len(tx'.tokenTransfers) = 0 /\ Len(tx'.nativeTransfers) = 0)
      => (nodes' = nodes /\ edges' = edges) ]_vars

\* such a transaction was visited: its accountData names a wallet that the
\* node map still lacks
C8_Witness ==
  /\ index > 0
  /\ Len(tx.tokenTransfers) = 0
  /\ Len(tx.nativeTransfers) = 0
  /\ \E i \in 1..Len(tx.accountData) :
       tx.accountData[i] = C /\ C \notin NodeIds(nodes)

\* ================================================== time-filter properties
InRange(t) ==
  timeRange.start <= txTime(t.timestamp) /\ txTime(t.timestamp) <= timeRange.end

KeptWhenInRange(t)   == ~timeRange.given \/ InRange(t)

\* C9: the filter keeps exactly the transactions whose normalized timestamp
\* lies between start and end, both bounds included, and keeps everything
\* when no timeRange is given.
C9_TimeFilterInclusive ==
  filteredTransactions = SelectSeq(responseData, KeptWhenInRange)

\* a transaction stamped exactly at start and one exactly at end were kept,
\* a third one outside the range was dropped
C9_Witness ==
  /\ timeRange.given
  /\ timeRange.start < timeRange.end
  /\ Len(responseData) = 3
  /\ Len(filteredTransactions) = 2
  /\ txTime(filteredTransactions[1].timestamp) = timeRange.start
  /\ txTime(filteredTransactions[2].timestamp) = timeRange.end

\* ================================================= rate-limiter properties
Min(a, b) == IF a <= b THEN a ELSE b

ExactlyLimitAdmitted ==
  /\ \A c \in Clients : seen[c].passed = Min(seen[c].requests, RateLimit)
  /\ last.status = 429 => last.retryAfter > 0

\* C10 as stated: of the requests of one identifier inside 60 seconds the
\* first RateLimit are admitted and every further one is refused with a reset
\* in the future, independently of other identifiers; 60 seconds after its
\* first request the identifier is admitted again.
C10_ExactlyLimitAdmitted == ExactlyLimitAdmitted

\* C10 amended: the same, as long as the rate-limit store is configured and
\* none of its calls has thrown.
C10_ExactlyLimitAdmittedWhileStoreAnswers ==
  (ratelimit /\ storeFailed = 0) => ExactlyLimitAdmitted

\* the eleventh request of a client was refused while the other client was
\* being admitted
C10_Witness ==
  /\ ratelimit
  /\ storeFailed = 0
  /\ \E c \in Clients, d \in Clients :
       /\ c # d
       /\ seen[c].requests = RateLimit + 1
       /\ seen[c].passed = RateLimit
       /\ last = [client |-> c, status |-> 429,
                  retryAfter |-> seen[c].since + RateWindow - clock]
       /\ seen[d].passed >= 1

\* C11: the rate limiter fails open. A request whose check finds no
\* configured store, or whose ratelimit.limit call throws, is let through by
\* the handler (it goes on past the check, never a 429 or another failure),
\* and the store's windows are left as they were.
C11_FailsOpen ==
  [][ ((~ratelimit /\ seen' # seen) \/ storeFailed' > storeFailed)
        => /\ last'.status = 200
           /\ seen'[last'.client].passed >= 1
           /\ windows' = windows ]_vars

\* a request was let through because the store threw, although the store's
\* window of that client was already full
C11_Witness ==
  /\ ratelimit
  /\ storeFailed >= 1
  /\ \E c \in Clients :
       /\ last = [client |-> c, status |-> 200, retryAfter |-> 0]
       /\ windows[c].count = RateLimit
       /\ clock < windows[c].windowStart + RateWindow
       /\ seen[c].passed = RateLimit + 1

\* ====================================================== handler properties
Running == stage \in {"processing", "enhancing"}

\* C12: entity resolution and token enrichment are bounded by one deadline of
\* ProcessingTimeout seconds counted from the start of the request: no part
\* of them is still running after it, and a request that is answered 200 was
\* answered within it (the others end with the 408 of the timeout).
C12_SingleDeadlineFromRequestStart ==
  /\ Running => elapsed <= ProcessingTimeout
  /\ (stage = "responded" /\ res.status = 200) => elapsed <= ProcessingTimeout

DeadlineExpired == stage = "responded" /\ caught = ProcessingTimeoutError

\* C13 as stated: when the deadline expires the response carries the graph
\* and the annotations that exist at that moment.
C13_PartialResultsOnDeadline ==
  DeadlineExpired => (res.graph /\ res.annotations = annotated)

\* C13 amended: when the deadline expires the response is the 408 error
\* alone; the graph and the annotations made so far are discarded.
C13_DeadlineDiscardsGraph ==
  DeadlineExpired => res = ErrorBody(408, TimeoutText, NoRetryAfter)

\* the deadline expired after an annotation had been made
C13_Witness ==
  /\ DeadlineExpired
  /\ timer = "fired"
  /\ annotated >= 1
  /\ res.status = 408

\* the failures the upstream call and the race can end with
IsTimeout(error) == error = AxiosTimeout \/ error = ProcessingTimeoutError

Failed == stage = "responded" /\ res.status # 200

\* C20 as stated: a timeout is answered 408; an upstream 429 is answered 429
\* with a retryAfter; an upstream 401 and a missing API key are answered
\* with the configuration error (500); every other failure is answered with
\* the generic failure (500); none of these responses carries a graph.
C20_UpstreamErrorKinds ==
  Failed =>
    /\ ~res.graph /\ res.annotations = 0
    /\ IF ~apiKey THEN res = ErrorBody(500, ConfigText, NoRetryAfter)
       ELSE IF IsTimeout(caught)
         THEN res = ErrorBody(408, TimeoutText, NoRetryAfter)
       ELSE IF caught.status = 429
         THEN res.status = 429 /\ res.retryAfter > 0
       ELSE IF caught.status = 401
         THEN res = ErrorBody(500, ConfigText, NoRetryAfter)
       ELSE res = ErrorBody(500, GenericText, NoRetryAfter)

\* C20 amended: the same, except that an upstream 400 is answered 400
\* (invalid address or request) instead of the generic failure.
C20_UpstreamErrorKindsWith400 ==
  Failed =>
    /\ ~res.graph /\ res.annotations = 0
    /\ IF ~apiKey THEN res = ErrorBody(500, ConfigText, NoRetryAfter)
       ELSE IF IsTimeout(caught)
         THEN res = ErrorBody(408, TimeoutText, NoRetryAfter)
       ELSE IF caught.status = 429
         THEN res.status = 429 /\ res.retryAfter > 0
       ELSE IF caught.status = 401
         THEN res = ErrorBody(500, ConfigText, NoRetryAfter)
       ELSE IF caught.status = 400
         THEN res = ErrorBody(400, InvalidText, NoRetryAfter)
       ELSE res = ErrorBody(500, GenericText, NoRetryAfter)

\* the upstream answered 429 and the handler passed it on with a retryAfter
C20_Witness ==
  /\ Failed
  /\ caught = HttpError(429)
  /\ res = ErrorBody(429, UpstreamLimitText, UpstreamRetryAfter)

\* ================================================ entity-resolver properties
\* the k-th getEntityInfo call of an address repeats the first one: same
\* entity, and no call to the external cache or to a source
RepeatsFirst(address, k) ==
  /\ resolved[address][k].entity = resolved[address][1].entity
  /\ resolved[address][k].calls = << >>

\* C14 as stated: for every address, whether it resolved to an entity or to
\* null, a later resolution returns what the first returned and makes no
\* external lookup.
C14_ResolutionIdempotent ==
  \A address \in EntityAddresses :
    \A k \in 2..Len(resolved[address]) : RepeatsFirst(address, k)

\* C14 amended: the same for every address whose first resolution returned
\* an entity; an address that resolved to null is looked up again.
C14_AnnotatedResolutionIdempotent ==
  \A address \in EntityAddresses :
    resolved[address] # << >> /\ resolved[address][1].entity # NullEntity
      => \A k \in 2..Len(resolved[address]) : RepeatsFirst(address, k)

\* an address that a source had resolved was resolved a second time
C14_Witness ==
  /\ Len(resolved[OtherAddress]) = 2
  /\ resolved[OtherAddress][1].entity = FoundBy("birdeye", OtherAddress)
  /\ resolved[OtherAddress][1].calls # << >>
  /\ resolved[OtherAddress][2].entity = FoundBy("birdeye", OtherAddress)

RegistryEntity == [name |-> "Tensor", source |-> "known_entities"]

CallsOf(r) == {r.calls[i] : i \in 1..Len(r.calls)}

\* C15 as stated: every resolution of an address of the registry returns the
\* registry's entity and makes no external call at all, the external cache
\* included.
C15_RegistryBeforeAnyCall ==
  \A k \in 1..Len(resolved[RegistryAddress]) :
    /\ resolved[RegistryAddress][k].entity = RegistryEntity
    /\ resolved[RegistryAddress][k].calls = << >>

\* C15 amended: every resolution of an address of the registry returns the
\* registry's entity without a call to the name service, the label service
\* or the token lists; the external cache, when configured, is read before
\* the registry and written after it.
C15_RegistryBeforeSources ==
  \A k \in 1..Len(resolved[RegistryAddress]) :
    LET r == resolved[RegistryAddress][k]
    IN /\ r.entity = RegistryEntity
       /\ CallsOf(r) \subseteq {"redis.get", "redis.setex"}
       /\ ~redisUrl => r.calls = << >>

\* an address of the registry was resolved from the registry itself, the
\* external cache holding nothing for it
C15_Witness ==
  /\ redisUrl
  /\ Len(resolved[RegistryAddress]) >= 1
  /\ resolved[RegistryAddress][1] =
       [entity |-> RegistryEntity, calls |-> <<"redis.get", "redis.setex">>]

\* ======================================================= lookup failures
\* C16 as stated: whatever lookups of the name service, the label service,
\* the token lists and the token metadata fail or time out, the request is
\* answered 200, and its response carries an annotation for every lookup
\* whose source found what was asked for (the failed ones are left out, the
\* others are not affected).
C16_LookupFailuresAbsorbed ==
  (stage = "responded" /\ failures >= 1) => res = successResponse(hits)

\* C16 amended: the same, unless the time the failed lookups took has let the
\* deadline of the race expire; the request then ends with the 408 of C12.
C16_LookupFailuresAbsorbedBeforeDeadline ==
  (stage = "responded" /\ failures >= 1 /\ caught # ProcessingTimeoutError)
    => res = successResponse(hits)

\* two rounds had failing lookups, one of them found its entity all the
\* same, and the request was answered 200 with that annotation
C16_Witness ==
  /\ stage = "responded"
  /\ failures >= 2
  /\ hits >= 1
  /\ caught = NoError
  /\ res = successResponse(hits)

\* ================================================= token-cache properties
\* C17: the cache is advisory. For the same edges and the same answers of
\* the endpoint every run of enhanceTokenMetadata returns the same edges,
\* with the same tokenSymbol, tokenName, tokenLogo and tokenMetadata, whether
\* the record comes from the cache, the cache is empty, or its gets and sets
\* fail.
C17_CacheAdvisory ==
  \A k \in 2..Len(runs) : runs[k] = runs[1]

\* ================================================ classification properties
\* the UI amount of a token transfer, as the edge's uiAmount gives it
UiAmountOf(x) == IF x.uiAmount # NoUiAmount THEN x.uiAmount ELSE x.amount

Classified == classifyEdges # << >>

\* C18 as stated: a token transfer whose UI amount is 1 gets the type NFT, one
\* with any other positive UI amount the type SPL_TOKEN, whatever its raw
\* amount; a native transfer gets neither type.
C18_TypeByUiAmount ==
  Classified =>
    IF classifyInput.list = "token"
    THEN /\ UiAmountOf(classifyInput) = 1 => classifyEdges[1].type = "NFT"
         /\ UiAmountOf(classifyInput) > 1
              => classifyEdges[1].type = "SPL_TOKEN"
    ELSE classifyEdges[1].type \notin {"NFT", "SPL_TOKEN"}

\* C18 amended: a token transfer whose raw amount or UI amount is 1 gets the
\* type NFT, every other token transfer the type SPL_TOKEN; a native
\* transfer gets neither type.
C18_TypeByRawOrUiAmount ==
  Classified =>
    IF classifyInput.list = "token"
    THEN classifyEdges[1].type =
           (IF classifyInput.amount = 1 \/ classifyInput.uiAmount = 1
            THEN "NFT" ELSE "SPL_TOKEN")
    ELSE classifyEdges[1].type \notin {"NFT", "SPL_TOKEN"}

\* a token transfer of raw amount 2 and UI amount 1 got the type NFT
C18_Witness ==
  /\ classifyInput = [list |-> "token", amount |-> 2, uiAmount |-> 1]
  /\ Len(classifyEdges) = 1
  /\ classifyEdges[1].type = "NFT"

\* ------------------------------------------------------------ C19
\* what identifies an edge, left alone by annotation and enrichment
EdgeCore(es) ==
  [i \in 1..Len(es) |->
     [id |-> es[i].id, source |-> es[i].source, target |-> es[i].target,
      type |-> es[i].type, mint |-> es[i].mint]]

\* the list of transfers the forEach body walks for transaction t
WalkedList(t) ==
  IF Len(t.tokenTransfers) > 0 THEN t.tokenTransfers ELSE t.nativeTransfers

\* the position in list whose edge of transaction txIndex has this id, 0 if none
PositionOf(id, list, txIndex) ==
  IF \E p \in 1..Len(list) :
       id = EdgeId(list[p].fromUserAccount, list[p].toUserAccount, txIndex, p - 1)
  THEN CHOOSE p \in 1..Len(list) :
       id = EdgeId(list[p].fromUserAccount, list[p].toUserAccount, txIndex, p - 1)
  ELSE 0

\* C19: each iteration of the forEach appends its edges after those of the
\* earlier transactions, in the order of the transaction's transfers; the
\* result and the response carry exactly the edges built, in the order built,
\* and the nodes built, whatever entity resolution, token metadata and symbol
\* enrichment came back with.
C19_EdgeOrderStable ==
  [][ /\ index' = index + 1 =>
           /\ Len(edges') >= Len(edges)
           /\ SubSeq(edges', 1, Len(edges)) = edges
           /\ \A k \in (Len(edges) + 1)..Len(edges') :
                PositionOf(edges'[k].id, WalkedList(tx'), index) >= 1
           /\ \A k, l \in (Len(edges) + 1)..Len(edges') :
                k < l => PositionOf(edges'[k].id, WalkedList(tx'), index)
                           < PositionOf(edges'[l].id, WalkedList(tx'), index)
      /\ Returned' =>
           /\ EdgeCore(result'.edges) = EdgeCore(edges')
           /\ NodeIds(result'.nodes) = NodeIds(nodes')
           /\ Len(result'.nodes) = Len(nodes')
      /\ Answered' =>
           /\ EdgeCore(response'.edges) = EdgeCore(edges')
           /\ NodeIds(response'.nodes) = NodeIds(nodes')
           /\ Len(response'.nodes) = Len(nodes')
    ]_vars

\* a response with two edges of one transaction, one annotated with token
\* metadata by processTransactions and one given a symbol by enrichment
C19_Witness ==
  /\ Answered
  /\ index = 1
  /\ Len(response.edges) = 2
  /\ response.edges[1].id # response.edges[2].id
  /\ \E i \in 1..2 : response.edges[i].tokenMetadata # Undefined
  /\ \E i \in 1..2 : response.edges[i].tokenSymbol # edges[i].tokenSymbol

\* ------------------------------------------------------------ C21
\* a string of 32 to 44 base58 characters and nothing else
WellFormed(address) ==
  /\ address.kind = "string"
  /\ Len(address.text) = 1
  /\ address.text[1].class = Base58
  /\ address.text[1].count >= MinAddressLength
  /\ address.text[1].count <= MaxAddressLength

\* the validation of the request has run
Validated == step \in {"fetching", "responded"} /\ "validate" \in
               {order[i] : i \in 1..Len(order)}

\* C21: a request whose address is not a string of 32 to 44 base58 characters
\* is answered 400 and causes no upstream call; the address of the upstream
\* call and the id of the Input node are the address the client sent.
C21_InvalidAddressRejected ==
  /\ ~WellFormed(req.address) => upstreamCalls = << >>
  /\ (Validated /\ ~WellFormed(req.address)) => reply.status = 400
  /\ \A i \in 1..Len(upstreamCalls) :
       upstreamCalls[i].address = req.address.text
  /\ reply.status = 200 /\ req.method = "POST"
       => reply.inputNode = req.address.text

\* ------------------------------------------------------------ C22
\* a time range with a bound that is missing or is not a timestamp
MalformedRange(range) ==
  /\ range.kind = "object"
  /\ \/ range.start.kind \in {"undefined", "garbage"}
     \/ range.end.kind \in {"undefined", "garbage"}

\* C22: a request whose time range has a missing or unparsable bound is
\* answered with an error, and no upstream call is made for it.
C22_MalformedRangeRejected ==
  MalformedRange(req.timeRange) =>
    /\ upstreamCalls = << >>
    /\ step = "responded" => reply.status >= 400

\* ------------------------------------------------------------ C23
\* the stages in the order the specification gives them
StageRank(name) ==
  CASE name = "validate" -> 1
    [] name = "rate-limit" -> 2
    [] name = "ingest" -> 3
    [] name = "time-filter" -> 4
    [] name = "build graph" -> 5

\* C23: the handler runs validation, the rate-limit check, ingestion, the
\* time filter and graph construction in this order, and a request answered
\* 400 has made no rate-limit check.
C23_ValidationBeforeRateLimit ==
  /\ \A i, j \in 1..Len(order) :
       i < j => StageRank(order[i]) < StageRank(order[j])
  /\ reply.status = 400 => limitCalls = 0

\* ------------------------------------------------------------ C24
\* the calls of a resolution to the name service, the label service and the
\* token lists, in the order they were made
SourceCalls(r) ==
  SelectSeq(r.calls, LAMBDA c : c \notin {"redis.get", "redis.setex"})

\* the getEntityInfo call that a step has added for address
Added(address) == resolved'[address][Len(resolved'[address])]

\* C24: a resolution answered by the in-process cache makes no call; any
\* other one reads the external cache first (when it is configured), then
\* the registry, then the name service, the label service and the two token
\* lists in this order. It stops at the first entity: an entity found by a
\* source was found by the last source called, an address of the registry
\* reaches no source, and null is returned only after all four sources were
\* called.
C24_CascadeOrder ==
  [][ \A address \in EntityAddresses \ {NoAddress} :
        Len(resolved'[address]) > Len(resolved[address]) =>
          LET r   == Added(address)
              src == SourceCalls(r)
          IN IF entityCache[address] # NullEntity
             THEN r.calls = << >> /\ r.entity = entityCache[address]
             ELSE /\ redisUrl => r.calls # << >> /\ r.calls[1] = "redis.get"
                  /\ ~redisUrl => r.calls = src
                  /\ \A i \in 2..Len(r.calls) : r.calls[i] # "redis.get"
                  /\ (redisUrl /\ r.entity # NullEntity
                        /\ r.entity = entityStore[address]
                        /\ entityStore'[address] = entityStore[address]
                        /\ r.calls = <<"redis.get">>)
                     \/ /\ src = SubSeq(Sources, 1, Len(src))
                        /\ address = RegistryAddress =>
                             src = << >> /\ r.entity = RegistryEntity
                        /\ (r.entity # NullEntity /\ src # << >>) =>
                             r.entity = FoundBy(src[Len(src)], address)
                        /\ (r.entity # NullEntity /\ src = << >>) =>
                             r.entity = RegistryEntity
                        /\ r.entity = NullEntity => src = Sources
    ]_vars

\* a resolution that went through the external cache, the registry, the name
\* service and the label service, and stopped at the first token list
C24_Witness ==
  /\ redisUrl
  /\ Len(resolved[OtherAddress]) >= 1
  /\ resolved[OtherAddress][1] =
       [entity |-> FoundBy("birdeye", OtherAddress),
        calls |-> <<"redis.get", "sns", "solscan", "birdeye", "redis.setex">>]

\* ------------------------------------------------------------ C25
LifeAddresses == {RegistryAddress, OtherAddress}

\* the step has added a getEntityInfo call for address
Resolves(address) == Len(resolved'[address]) > Len(resolved[address])

\* the call the step has added got its entity from the registry or a source
FromRegistryOrSource(address) ==
  /\ Added(address).entity # NullEntity
  /\ entityCache[address] = NullEntity
  /\ lastGet' # "hit"

\* some earlier call for address has returned an entity
ResolvedBefore(address) ==
  \E k \in 1..Len(resolved[address]) :
    resolved[address][k].entity # NullEntity

\* C25 as stated: a hit of the external cache fills the in-process cache;
\* every entity obtained from the registry or from a source is written to
\* the in-process cache and to the external cache; and a later resolution of
\* the address in a fresh process is served from the external cache.
C25_WriteThrough ==
  [][ \A address \in LifeAddresses :
        Resolves(address) =>
          LET r == Added(address)
          IN /\ lastGet' = "hit" => entityCache'[address] = r.entity
             /\ FromRegistryOrSource(address) =>
                  /\ entityCache'[address] = r.entity
                  /\ entityStore'[address] = r.entity
                  /\ storedAt'[address] = today
             /\ (ResolvedBefore(address) /\ entityCache[address] = NullEntity)
                  => r.calls = <<"redis.get">> /\ r.entity = entityStore[address]
    ]_vars

\* C25 amended: a hit of the external cache fills the in-process cache; every
\* entity obtained from the registry or from a source is written to the
\* in-process cache and, when the external cache is configured, a setex to
\* the external cache is issued for it, which stores the entity for 86400
\* seconds unless it fails; a resolution in a fresh process is served from
\* the external cache when the cache is configured, holds an entry younger
\* than 86400 seconds for the address and its get does not fail.
C25_WriteThroughWhenStoreWorks ==
  [][ \A address \in LifeAddresses :
        Resolves(address) =>
          LET r == Added(address)
          IN /\ lastGet' = "hit" => entityCache'[address] = r.entity
             /\ FromRegistryOrSource(address) =>
                  /\ entityCache'[address] = r.entity
                  /\ redisUrl <=> lastSet' # "none"
                  /\ lastSet' = "ok" =>
                       /\ entityStore'[address] = r.entity
                       /\ storedAt'[address] = today
                  /\ lastSet' # "ok" => storedAt' = storedAt
             /\ ( /\ entityCache[address] = NullEntity
                  /\ redisUrl
                  /\ entityStore[address] # NullEntity
                  /\ today < storedAt[address] + EntityTtl
                  /\ lastGet' # "failed" )
                  => /\ r.calls = <<"redis.get">>
                     /\ r.entity = entityStore[address]
                     /\ entityCache'[address] = r.entity
    ]_vars

\* an address a source had resolved was resolved again in a fresh process,
\* twelve hours later, and served from the external cache
C25_Witness ==
  /\ Len(resolved[OtherAddress]) = 2
  /\ resolved[OtherAddress][1] =
       [entity |-> FoundBy("solscan", OtherAddress),
        calls |-> <<"redis.get", "sns", "solscan", "redis.setex">>]
  /\ resolved[OtherAddress][2] =
       [entity |-> FoundBy("solscan", OtherAddress),
        calls |-> <<"redis.get">>]
  /\ lastGet = "hit"
  /\ today > storedAt[OtherAddress]
  /\ entityCache[OtherAddress] = FoundBy("solscan", OtherAddress)

\* ------------------------------------------------------------ C26
\* C26: a resolution made 86400 seconds or more after the entry of the
\* address was cached is answered neither from the in-process cache nor from
\* the external cache; it goes back to the registry and the sources.
C26_CachesExpire ==
  [][ \A address \in LifeAddresses :
        Resolves(address) =>
          /\ ( /\ entityCache[address] # NullEntity
               /\ today >= cachedAt[address] + EntityTtl )
               => Added(address).calls # << >>
          /\ ( /\ entityCache[address] = NullEntity
               /\ entityStore[address] # NullEntity
               /\ today >= storedAt[address] + EntityTtl )
               => lastGet' # "hit"
    ]_vars

\* ------------------------------------------------------------ C27
\* the source and the target of every edge of the graph
EdgeEndpoints ==
  {edges[i].source : i \in 1..Len(edges)} \cup
  {edges[i].target : i \in 1..Len(edges)}

\* C27: the addresses handed to getEntityInfo are edge endpoints outside the
\* exclusion set, and once batchResolveAddresses has returned they are all
\* of them; the keys of entityInfo are among them, so neither a system
\* account nor an address that only the accountData carry is looked up or
\* is a key of entityInfo.
C27_OnlyTransferAddressesResolved ==
  /\ Range(submitted) \subseteq EdgeEndpoints \ systemAccounts
  /\ inFlight \subseteq Range(submitted)
  /\ results \cup batchResults \subseteq Range(submitted)
  /\ phase = "returned" => Range(submitted) = EdgeEndpoints \ systemAccounts
  /\ AccountOnly \notin Range(submitted) \cup results

\* ------------------------------------------------------------ C28
\* C28: at most ten resolutions are in flight; a group is started only when
\* none of the previous one is in flight; when batchResolveAddresses has
\* returned, every filtered address was submitted once and every address
\* whose lookups did not fail is a key of the results, whatever failed in
\* the groups before its own.
C28_GroupsOfTen ==
  /\ [](Cardinality(inFlight) <= BatchSize)
  /\ [][groups' > groups => inFlight = {}]_vars
  /\ [](phase = "returned" =>
          /\ submitted = filteredAddresses
          /\ results = Range(filteredAddresses) \ failing
          /\ groups * BatchSize >= Len(filteredAddresses))

\* ------------------------------------------------------------ C29
\* the mints that a token-metadata lookup in flight is asking for
MintsInFlight == mintLookups \cup Range(callMints)

\* C29: at no time of a request are token-metadata lookups in flight for
\* more than five mints.
C29_FiveMintsAtATime == Cardinality(MintsInFlight) <= TokenBatchSize

\* ------------------------------------------------------------ C30
\* the batch call of the group that call k of the log belongs to
GroupCallOf(k) ==
  CHOOSE j \in 1..k :
    /\ tokenCalls[j].kind = "batch"
    /\ \A l \in (j + 1)..k : tokenCalls[l].kind # "batch"

\* the log from the batch call at position j to the end of its group
GroupEnds(j) ==
  \/ \E l \in (j + 1)..Len(tokenCalls) : tokenCalls[l].kind = "batch"
  \/ tokenStage = "done"

BatchCallsMade == SelectSeq(tokenCalls, LAMBDA c : c.kind = "batch")

\* C30: an individual call is made only for a mint of the latest group, and
\* only when the batch call of that group has failed; once a group whose
\* batch call failed is over, every mint of it has had its individual call,
\* in order; a mint has a symbol if and only if the cache had it or a call
\* that asked for it succeeded; at the end the batch calls made are one per
\* group of five of the unknown mints, whatever failed before.
C30_FallbackPerGroup ==
  /\ \A k \in 1..Len(tokenCalls) :
       tokenCalls[k].kind = "individual" =>
         LET g == tokenCalls[GroupCallOf(k)]
         IN /\ ~g.ok
            /\ Len(tokenCalls[k].mintAccounts) = 1
            /\ tokenCalls[k].mintAccounts[1] \in Range(g.mintAccounts)
  /\ \A j \in 1..Len(tokenCalls) :
       LET g == tokenCalls[j]
       IN (g.kind = "batch" /\ GroupEnds(j)) =>
            IF g.ok
            THEN j < Len(tokenCalls) => tokenCalls[j + 1].kind = "batch"
            ELSE /\ Len(tokenCalls) >= j + Len(g.mintAccounts)
                 /\ \A l \in 1..Len(g.mintAccounts) :
                      /\ tokenCalls[j + l].kind = "individual"
                      /\ tokenCalls[j + l].mintAccounts =
                           <<g.mintAccounts[l]>>
                 /\ Len(tokenCalls) > j + Len(g.mintAccounts) =>
                      tokenCalls[j + Len(g.mintAccounts) + 1].kind = "batch"
  /\ tokenStage \notin {"edges", "allSettled"} =>
       resolvedMints =
         (Range(mintList) \cap cacheHits) \cup
         UNION {Range(tokenCalls[k].mintAccounts) :
                  k \in {l \in 1..Len(tokenCalls) : tokenCalls[l].ok}}
  /\ \A n \in 1..Len(BatchCallsMade) :
       BatchCallsMade[n].mintAccounts =
         slice(tokenMints, (n - 1) * TokenBatchSize, n * TokenBatchSize)
  /\ tokenStage = "done" =>
       Len(BatchCallsMade) * TokenBatchSize >= Len(tokenMints)

\* the batch call of the first group failed; of its individual calls one
\* failed and the others succeeded; the second group got its batch call
C30_Witness ==
  /\ tokenStage = "done"
  /\ Len(tokenMints) = 7
  /\ tokenCalls[1] =
       TokenCall("batch", <<"m1", "m2", "m3", "m4", "m5">>, FALSE)
  /\ tokenCalls[3] = TokenCall("individual", <<"m2">>, FALSE)
  /\ \A k \in {2, 4, 5, 6} : tokenCalls[k].ok
  /\ tokenCalls[7] = TokenCall("batch", <<"m6", "m7">>, TRUE)
  /\ resolvedMints = Range(mintList) \ {"m2"}

\* ------------------------------------------------------------ C31
\* the order of preference of the symbol of a resolved mint
DerivedSymbol(info) ==
  IF info.onChainSymbol # "" THEN info.onChainSymbol
  ELSE IF info.offChainSymbol # "" THEN info.offChainSymbol
  ELSE IF info.onChainName # "" THEN slice4(info.onChainName)
  ELSE "Unknown"

\* C31: the symbol of a record resolved over the network, by the batch call
\* or by the call for the single mint, is the on-chain symbol, else the
\* off-chain symbol, else the first characters of the on-chain name, else
\* "Unknown": the record in the cache and every edge a run has given a
\* symbol carry that symbol.
C31_SymbolPreference ==
  /\ tokenCache.present => tokenCache.symbol = DerivedSymbol(upstream.info)
  /\ \A k \in 1..Len(runs) : \A i \in 1..Len(runs[k]) :
       runs[k][i].tokenSymbol \in
         {enrichEdges[i].tokenSymbol, DerivedSymbol(upstream.info)}

\* ------------------------------------------------------------ C32
\* the record that the answers of the endpoint lead to
NetworkRecord ==
  IF upstream.batchOk THEN batchRecord(upstream.info)
  ELSE individualRecord(upstream.info)

\* a run that starts now finds no record in the cache, has an edge that asks
\* for the symbol, and gets an answer for the mint from the endpoint
ResolvesOverNetwork ==
  /\ ~tokenCache.present
  /\ enrichEdges[1].mint \in unknownMints(enrichEdges)
  /\ upstream.info.known
  /\ upstream.batchOk \/ upstream.individualOk
  /\ runs' # runs

\* the edges of the latest run all carry symbol, name and logo of the record
AppliedToAllEdges ==
  \A i \in 1..Len(enrichEdges) :
    LET e == runs'[Len(runs')][i]
    IN /\ e.tokenSymbol = NetworkRecord.symbol
       /\ e.tokenName = NetworkRecord.name
       /\ e.tokenLogo = NetworkRecord.logo

\* C32 as stated: a run that resolves the record over the network leaves it
\* in the cache under the mint and on every edge of the mint.
C32_ResolvedRecordCachedAndApplied ==
  [][ResolvesOverNetwork =>
       /\ tokenCache' = NetworkRecord
       /\ AppliedToAllEdges]_vars

\* C32, amended: a run that resolves the record over the network hands it to
\* the cache write, after which the cache holds it or, the write having
\* failed, is as it was; the record is on every edge of the mint.
C32_ResolvedRecordAppliedWriteAttempted ==
  [][ResolvesOverNetwork =>
       /\ tokenCache' \in {NetworkRecord, tokenCache}
       /\ AppliedToAllEdges]_vars

\* two edges of the mint, the second with a known symbol, after a run by the
\* batch path: both carry the resolved symbol and the cache holds the record
C32_Witness ==
  /\ Len(enrichEdges) = 2
  /\ enrichEdges[1].tokenSymbol = "Unknown"
  /\ enrichEdges[2].tokenSymbol = "USDC"
  /\ upstream.batchOk /\ upstream.info.known
  /\ upstream.info.onChainSymbol = "XYZ"
  /\ Len(runs) = 1
  /\ runs[1][1].tokenSymbol = "XYZ"
  /\ runs[1][2].tokenSymbol = "XYZ"
  /\ tokenCache = batchRecord(upstream.info)

\* ------------------------------------------------------------ C33
\* C33: a mint that the cache has a record of is in no token-metadata call
\* of the request: neither in a lookup of processTransactions, nor in a
\* batch call or an individual call of enhanceTokenMetadata.
C33_CacheHitSkipsNetwork ==
  \A mint \in cacheHits :
    /\ mint \notin mintLookups
    /\ mint \notin Range(callMints)
    /\ \A k \in 1..Len(tokenCalls) :
         mint \notin Range(tokenCalls[k].mintAccounts)

\* ------------------------------------------------------------ C34
\* the ranges of the log whose bounds are timestamps
Timed(k) ==
  /\ limitLog[k].timeRange.kind = "object"
  /\ limitLog[k].timeRange.start.kind = "iso"
  /\ limitLog[k].timeRange.end.kind = "iso"

\* the width of the window of a range, in seconds
WindowSeconds(k) ==
  (limitLog[k].timeRange.end.time - limitLog[k].timeRange.start.time)
    * UnitSeconds

\* C34: the limit of a window is 100 up to one day, 75 up to three days, 50
\* up to seven days, 30 up to fourteen days and 20 beyond; of two windows
\* the narrower one never has the lower limit.
C34_LimitPolicy ==
  /\ \A k \in 1..Len(limitLog) :
       Timed(k) =>
         limitLog[k].limit =
           IF WindowSeconds(k) <= SecondsPerDay THEN 100
           ELSE IF WindowSeconds(k) <= 3 * SecondsPerDay THEN 75
           ELSE IF WindowSeconds(k) <= 7 * SecondsPerDay THEN 50
           ELSE IF WindowSeconds(k) <= 14 * SecondsPerDay THEN 30
           ELSE 20
  /\ \A j, k \in 1..Len(limitLog) :
       (Timed(j) /\ Timed(k) /\ WindowSeconds(j) <= WindowSeconds(k)) =>
         limitLog[j].limit >= limitLog[k].limit

\* a window of 90000 seconds and one of 250000 seconds, both within three
\* days, got 75; the log also shows that a window of 80000 seconds gets 100
C34_Witness ==
  /\ Len(limitLog) = 2
  /\ Timed(1) /\ Timed(2)
  /\ WindowSeconds(1) = 90000
  /\ WindowSeconds(2) = 250000
  /\ limitLog[1].limit = 75
  /\ limitLog[2].limit = 75

\* ------------------------------------------------------------ C35
\* the time of a transaction as the rule states it: seconds below the
\* cutoff, milliseconds from the cutoff on
StatedTime(timestamp) ==
  IF timestamp < SecondsCutoff THEN timestamp * MsPerSecond ELSE timestamp

KeptByStatedTime(t) ==
  /\ timeRange.start <= StatedTime(t.timestamp)
  /\ StatedTime(t.timestamp) <= timeRange.end

\* C35: the filter compares with the bounds of the range the raw timestamp
\* times 1000 when it is below 1e10, and the raw timestamp itself when it
\* is 1e10 or more.
C35_TimestampNormalization ==
  timeRange.given =>
    filteredTransactions = SelectSeq(responseData, KeptByStatedTime)

\* ------------------------------------------------------------ C36
\* C36: a request is answered once: never a second response, and a handler
\* that has returned has sent one, also when the timer fires after the race
\* is over and when processTransactions goes on after the 408.
C36_ExactlyOneResponse ==
  /\ Len(sent) <= 1
  /\ handlerAt = "returned" <=> Len(sent) = 1

\* the 408 was sent when the timer fired, and processTransactions has
\* settled afterwards
C36_Witness ==
  /\ handlerAt = "returned"
  /\ sent = <<408>>
  /\ raceTimer = "fired"
  /\ work = "settled"

\* ------------------------------------------------------------ C37
\* C37: a request that has passed the rate limit is answered in the end,
\* however many batches of addresses and of mints there are and whatever
\* fails in them.
C37_AdmittedRequestAnswered ==
  (handlerAt = "validate") ~> (Len(sent) >= 1)

\* a 200 after the batches of addresses and of mints, sent while the timer
\* of the race was still running
C37_Witness ==
  /\ handlerAt = "returned"
  /\ sent = <<200>>
  /\ work = "settled"
  /\ raceTimer = "armed"

\* ------------------------------------------------------------ C38
\* a symbol that is present and is not "Unknown"
KnownSymbol(e) == Truthy(e.tokenSymbol) /\ e.tokenSymbol # "Unknown"

\* C38: an edge whose tokenSymbol is known has the same tokenSymbol after
\* every run of enhanceTokenMetadata, whatever the other edges of its mint
\* ask for.
C38_KnownSymbolKept ==
  \A k \in 1..Len(runs) : \A i \in 1..Len(enrichEdges) :
    KnownSymbol(enrichEdges[i]) =>
      runs[k][i].tokenSymbol = enrichEdges[i].tokenSymbol

\* ------------------------------------------------------------ C39
\* C39: every wallet node of the response is the source or the target of an
\* edge of the response.
C39_NodesAreEdgeEndpoints ==
  Answered =>
    \A i \in 1..Len(response.nodes) :
      response.nodes[i].type = "wallet" =>
        \E j \in 1..Len(response.edges) :
          response.nodes[i].id \in {response.edges[j].source,
                                    response.edges[j].target}

\* ------------------------------------------------------------ C40
\* C40: with two calls of getEntityInfo for one uncached address in flight,
\* this.cache is never set to a different annotation for the address a
\* second time, and the calls that have returned have returned the same
\* annotation.
C40_WriteOnceSameAnnotation ==
  /\ \A i, j \in 1..Len(cacheWrites) : cacheWrites[i] = cacheWrites[j]
  /\ \A c, d \in Callers :
       (callStep[c] = "returned" /\ callStep[d] = "returned")
         => callResult[c] = callResult[d]
====
